---- MODULE Spec2Model ----
(***************************************************************************)
(* Model of the mach-port crate: Port (port.rs) owning Mach port rights,   *)
(* and MsgBuffer / Msg (msg.rs), the byte-level message buffer.  The Mach  *)
(* kernel the crate calls (mach_port_allocate, mach_port_mod_refs,         *)
(* mach_port_type, mach_port_extract_right, mach_msg) is modelled for one  *)
(* task, at the call sites of port.rs.                                     *)
(***************************************************************************)
EXTENDS Integers, Sequences, FiniteSets, TLC

(***************************************************************************)
(* Bounds of the model.                                                    *)
(***************************************************************************)
MaxPortVals == 4      \* Port values ever constructed in one behaviour
SpecPortVals == 3     \* Port values ever constructed in a behaviour of Spec
MaxKPorts == 2        \* kernel ports ever allocated
MaxNames == 2         \* entries of the task's port name space
MaxRefs == 2          \* send-right user references per name
MaxDesc == 1          \* descriptors the caller attaches to a buffer (Spec)
MaxDescBuf == 3       \* descriptors the caller attaches to a buffer (SpecBuf)
MaxInline == 4        \* inline bytes the caller appends to a buffer
QLimit == 2           \* messages a port queues before a send blocks
MaxQueued == 1        \* messages left queued at a port by Spec and SpecBuf

(***************************************************************************)
(* Constants of the Mach ABI, as the code uses them through mach_sys.      *)
(***************************************************************************)
SizeOfMessageStart == 28       \* mach_msg_header_t (24) + mach_msg_body_t (4)
SizeOfTrailer == 8             \* mach_msg_trailer_t
SizeOfDescriptor == 16         \* mach_msg_descriptor_t (union of all kinds)
SizeOfPortDescriptor == 12     \* mach_msg_port_descriptor_t
SizeOfOolDescriptor == 16      \* mach_msg_ool_descriptor_t
SizeOfOolPortsDescriptor == 16 \* mach_msg_ool_ports_descriptor_t

MACH_PORT_NULL == 0
MACH_PORT_DEAD == -1        \* !0, as the 32-bit two's-complement value

MACH_MSG_PORT_DESCRIPTOR == 0
MACH_MSG_OOL_DESCRIPTOR == 1
MACH_MSG_OOL_PORTS_DESCRIPTOR == 2
MACH_MSG_OOL_VOLATILE_DESCRIPTOR == 3

MACH_MSG_TYPE_MOVE_RECEIVE == 16
MACH_MSG_TYPE_MOVE_SEND == 17
MACH_MSG_TYPE_MOVE_SEND_ONCE == 18
MACH_MSG_TYPE_COPY_SEND == 19
MACH_MSG_TYPE_MAKE_SEND == 20
MACH_MSG_TYPE_MAKE_SEND_ONCE == 21
MACH_MSG_TYPE_PORT_SEND == 17


PortValIds == 1..MaxPortVals
KPortIds == 1..MaxKPorts
Names == 1..MaxNames

Max2(a, b) == IF a >= b THEN a ELSE b

(***************************************************************************)
(* Little-endian bytes of a 32-bit word, and back.  A word is kept as the  *)
(* two's-complement value of its bits.                                     *)
(***************************************************************************)
U32Bytes(x) ==
    << x % 256, (x \div 256) % 256, (x \div 65536) % 256, (x \div 16777216) % 256 >>

U32At(bytes, off) ==
    bytes[off + 1] + 256 * bytes[off + 2] + 65536 * bytes[off + 3]
        + 16777216 * (IF bytes[off + 4] >= 128 THEN bytes[off + 4] - 256
                      ELSE bytes[off + 4])

(***************************************************************************)
(* msgh_bits, by its fields: the dispositions of the remote and the local  *)
(* port (MACH_MSGH_BITS) and the MACH_MSGH_BITS_COMPLEX flag.              *)
(***************************************************************************)
MsghBits(remote, local, cplx) == [remote |-> remote, local |-> local, complex |-> cplx]

(***************************************************************************)
(* Vec<u8>::reserve(additional) on a vector of capacity cap and length     *)
(* len: amortised growth, the new capacity.                                *)
(***************************************************************************)
VecReserve(cap, len, additional) ==
    IF cap - len >= additional
    THEN cap
    ELSE Max2(Max2(2 * cap, len + additional), 8)

(***************************************************************************)
(* MsgBuffer.  The header and body-prefix fields are kept as fields, the   *)
(* bytes after MessageStart as the byte sequence body, so that             *)
(* buffer.len() = SizeOfMessageStart + Len(body).                          *)
(***************************************************************************)
BufLen(b) == SizeOfMessageStart + Len(b.body)

CanonicalStart(b) ==
    [b EXCEPT !.msgh_bits = MsghBits(MACH_MSG_TYPE_COPY_SEND, 0, FALSE),
              !.msgh_size = SizeOfMessageStart,
              !.msgh_remote_port = MACH_PORT_NULL,
              !.msgh_local_port = MACH_PORT_NULL,
              !.msgh_voucher_port = MACH_PORT_NULL,
              !.msgh_id = 0,
              !.msgh_descriptor_count = 0]

MsgBufferNew ==
    [msgh_bits |-> MsghBits(MACH_MSG_TYPE_COPY_SEND, 0, FALSE),
     msgh_size |-> SizeOfMessageStart,
     msgh_remote_port |-> MACH_PORT_NULL,
     msgh_local_port |-> MACH_PORT_NULL,
     msgh_voucher_port |-> MACH_PORT_NULL,
     msgh_id |-> 0,
     msgh_descriptor_count |-> 0,
     body |-> << >>,
     capacity |-> SizeOfMessageStart + SizeOfTrailer,
     capacity_inline |-> 0,
     capacity_descriptors |-> 0]

\* A reset that also forgets the tracked inline capacity.
BufResetForgetful(b) == [CanonicalStart([b EXCEPT !.body = << >>]) EXCEPT !.capacity_inline = 0]

\* MsgBuffer::reset: set_len(size_of MessageStart), then overwrite MessageStart.
BufReset(b) == CanonicalStart([b EXCEPT !.body = << >>])

\* A reset_on_send that leaves msgh_bits as sent.
BufResetOnSendKeepBits(b) ==
    [CanonicalStart([b EXCEPT !.body = << >>]) EXCEPT !.msgh_bits = b.msgh_bits]

\* A reset_on_send that rewrites MessageStart and leaves the length.
BufResetOnSendKeepLen(b) == CanonicalStart(b)

\* MsgImpl::reset_on_send
BufResetOnSend(b) == CanonicalStart([b EXCEPT !.body = << >>])

complex(b) == b.msgh_bits.complex

descriptor_count(b) == b.msgh_descriptor_count

\* MsgDescriptor::size: the width of a record from its type tag; -1 stands
\* for the unreachable!() arm.
\* A size that takes a record of unknown type for the generic descriptor.
DescriptorSizeLenient(ty) ==
    CASE ty = MACH_MSG_PORT_DESCRIPTOR -> SizeOfPortDescriptor
      [] ty = MACH_MSG_OOL_DESCRIPTOR -> SizeOfOolDescriptor
      [] ty = MACH_MSG_OOL_PORTS_DESCRIPTOR -> SizeOfOolPortsDescriptor
      [] ty = MACH_MSG_OOL_VOLATILE_DESCRIPTOR -> SizeOfOolDescriptor
      [] OTHER -> SizeOfPortDescriptor

\* MsgDescriptor::size: -1 where the match reaches unreachable!().
DescriptorSize(ty) ==
    CASE ty = MACH_MSG_PORT_DESCRIPTOR -> SizeOfPortDescriptor
      [] ty = MACH_MSG_OOL_DESCRIPTOR -> SizeOfOolDescriptor
      [] ty = MACH_MSG_OOL_PORTS_DESCRIPTOR -> SizeOfOolPortsDescriptor
      [] ty = MACH_MSG_OOL_VOLATILE_DESCRIPTOR -> SizeOfOolDescriptor
      [] OTHER -> -1

\* The type tag of the record at byte offset off of the body: the top byte
\* of the record's third 32-bit word.
DescriptorTypeAt(body, off) == body[off + 12]

\* MsgDescriptorIter::next, iterated rem times from offset off: the offset
\* reached, -1 when a record has an unknown tag (panic), -2 when the walk
\* leaves the bytes of the buffer.
RECURSIVE WalkDescriptors(_, _, _)
WalkDescriptors(body, off, rem) ==
    IF rem = 0 THEN off
    ELSE IF off + 12 > Len(body) THEN -2
    ELSE LET sz == DescriptorSize(DescriptorTypeAt(body, off))
         IN  IF sz < 0 THEN -1 ELSE WalkDescriptors(body, off + sz, rem - 1)

\* Msg::descriptors_byte_len
descriptors_byte_len(b) == WalkDescriptors(b.body, 0, b.msgh_descriptor_count)

\* How a walk of the whole chain of b can end other than by returning: the
\* panic of unreachable!() at a record of unknown type; past the bytes of the
\* buffer the tag read is whatever lies there.
WalkFaults(b) ==
    CASE descriptors_byte_len(b) = -1 -> {"panic"}
      [] descriptors_byte_len(b) = -2 -> {"panic", "ub"}
      [] OTHER -> {}

\* The length of the slice Msg::inline_data returns.
InlineLen(b) == b.msgh_size - (SizeOfMessageStart + descriptors_byte_len(b))

\* Msg::inline_data, where the slice lies within the buffer.
inline_data(b) ==
    SubSeq(b.body, descriptors_byte_len(b) + 1, b.msgh_size - SizeOfMessageStart)

\* The debug_assert! of Msg::inline_data.
InlineDataAssert(b) == BufLen(b) >= b.msgh_size

\* MsgBuffer::update_reservation
update_reservation(b) ==
    LET total_capacity == SizeOfMessageStart
                          + b.capacity_descriptors * SizeOfDescriptor
                          + b.capacity_inline + SizeOfTrailer
    IN  IF total_capacity >= BufLen(b)
        THEN [b EXCEPT !.capacity =
                 VecReserve(b.capacity, BufLen(b), total_capacity - BufLen(b))]
        ELSE b

\* A reserve_inline_data that reserves nothing.
reserve_inline_data_nothing(b, additional) == b

\* MsgBuffer::reserve_inline_data
reserve_inline_data(b, additional) ==
    IF b.capacity_inline < InlineLen(b) + additional
    THEN update_reservation([b EXCEPT !.capacity_inline = InlineLen(b) + additional])
    ELSE b

\* A reserve_descriptors that tracks the last request, not the highest.
reserve_descriptors_exact(b, additional) ==
    update_reservation([b EXCEPT !.capacity_descriptors = descriptor_count(b) + additional])

\* MsgBuffer::reserve_descriptors
reserve_descriptors(b, additional) ==
    IF b.capacity_descriptors < descriptor_count(b) + additional
    THEN update_reservation(
             [b EXCEPT !.capacity_descriptors = descriptor_count(b) + additional])
    ELSE b

\* The capacity bookkeeping of MsgBuffer::extend_inline_data (lines 154-158).
ExtendReserve(b, n) ==
    IF InlineLen(b) + n > b.capacity_inline
    THEN update_reservation([b EXCEPT !.capacity_inline = InlineLen(b) + n])
    ELSE b

\* The debug_assert! of MsgBuffer::extend_inline_data, on the buffer after
\* the bookkeeping.
ExtendAssert(b, n) == b.capacity - BufLen(b) >= n

\* The copy of MsgBuffer::extend_inline_data (lines 161-163).
ExtendCopy(b, data) ==
    [b EXCEPT !.body = b.body \o data,
              !.msgh_size = b.msgh_size + Len(data)]

\* MsgBuffer::extend_inline_data
extend_inline_data(b, data) == ExtendCopy(ExtendReserve(b, Len(data)), data)

\* The bytes of a mach_msg_port_descriptor_t: name, pad1, then the bitfield
\* word pad2:16, disposition:8, type:8.
PortDescriptorBytes(name, disposition) ==
    U32Bytes(name) \o <<0, 0, 0, 0>> \o <<0, 0, disposition, MACH_MSG_PORT_DESCRIPTOR>>

\* An insertion that lands after the last byte of the body.
SpliceAtEnd(body, at, bytes) == body \o bytes

\* Vec::splice(at..at, bytes): insertion at byte offset at of the body.
Splice(body, at, bytes) ==
    SubSeq(body, 1, at) \o bytes \o SubSeq(body, at + 1, Len(body))

\* MsgBuffer::append_descriptor
append_descriptor(b, bytes) ==
    LET insertion_offset == descriptors_byte_len(b)
        grown == VecReserve(b.capacity, BufLen(b), Len(bytes))
        b1 == [b EXCEPT !.body = Splice(b.body, insertion_offset, bytes),
                        !.capacity = grown,
                        !.msgh_descriptor_count = b.msgh_descriptor_count + 1,
                        !.msgh_bits = [b.msgh_bits EXCEPT !.complex = TRUE],
                        !.msgh_size = b.msgh_size + Len(bytes)]
    IN  IF descriptor_count(b1) > b1.capacity_descriptors
        THEN update_reservation(
                 [b1 EXCEPT !.capacity_descriptors = descriptor_count(b1)])
        ELSE b1

\* PortCopyMode / PortMoveMode to the disposition written in the descriptor.
CopyDisposition(mode) ==
    CASE mode = "Send" -> MACH_MSG_TYPE_COPY_SEND
      [] mode = "MakeSend" -> MACH_MSG_TYPE_MAKE_SEND
      [] mode = "MakeSendOnce" -> MACH_MSG_TYPE_MAKE_SEND_ONCE

MoveDisposition(mode) ==
    CASE mode = "Receive" -> MACH_MSG_TYPE_MOVE_RECEIVE
      [] mode = "Send" -> MACH_MSG_TYPE_MOVE_SEND
      [] mode = "SendOnce" -> MACH_MSG_TYPE_MOVE_SEND_ONCE

\* MsgBuffer::copy_right_raw / move_right_raw
copy_right_raw(b, mode, port) ==
    append_descriptor(b, PortDescriptorBytes(port, CopyDisposition(mode)))

move_right_raw(b, mode, port) ==
    append_descriptor(b, PortDescriptorBytes(port, MoveDisposition(mode)))

\* Msg::descriptors, for a chain of port records: the records in order, as
\* (name, disposition, type) read back from the bytes.
DescriptorAt(body, off) ==
    [name |-> U32At(body, off),
     disposition |-> body[off + 11],
     type |-> body[off + 12]]

RECURSIVE DescriptorsFrom(_, _, _)
DescriptorsFrom(body, off, rem) ==
    IF rem = 0 \/ off + 12 > Len(body) THEN << >>
    ELSE LET sz == DescriptorSize(DescriptorTypeAt(body, off))
         IN  IF sz < 0 THEN << >>
             ELSE <<DescriptorAt(body, off)>> \o DescriptorsFrom(body, off + sz, rem - 1)

descriptors(b) == DescriptorsFrom(b.body, 0, b.msgh_descriptor_count)

(***************************************************************************)
(* The kernel, for the one task: the task's port name space and the ports. *)
(*   names[n]  the entry of name n: the port it denotes (0: none), whether *)
(*             the task holds the receive right, its send-right user       *)
(*             references, whether it is a send-once right, whether it is  *)
(*             a dead name (srefs then counts the dead name's references). *)
(*   ports[p]  "unused", "alive" or "dead", and the queue of messages.     *)
(* A queued message is [count, complex, id, rights, data, reply]: the      *)
(* rights its descriptors carry, [kind, port], the bytes after the         *)
(* descriptors, and whether its header carries a send-once right to a      *)
(* reply port of the sender's (msgh_local_port of the sender).             *)
(***************************************************************************)
FreeEntry == [port |-> 0, recv |-> FALSE, srefs |-> 0, sonce |-> FALSE, dead |-> FALSE]

KernelInit ==
    [names |-> [n \in Names |-> FreeEntry],
     ports |-> [p \in KPortIds |-> [state |-> "unused", queue |-> << >>]]]

EntryFree(e) == e.port = 0 /\ ~e.dead

FreeNames(K) == {n \in Names : EntryFree(K.names[n])}

\* The name under which the task holds send or receive rights to port p.
NamesOf(K, p) == {n \in Names : K.names[n].port = p /\ ~K.names[n].sonce}

\* An entry once its port has died: a dead name if it held send rights.
DeadEntry(e) ==
    IF e.srefs > 0 \/ e.sonce
    THEN [port |-> 0, recv |-> FALSE, srefs |-> Max2(e.srefs, 1), sonce |-> FALSE,
          dead |-> TRUE]
    ELSE FreeEntry

\* An entry that has lost its last right is freed.
Normalize(e) ==
    IF ~e.dead /\ ~e.recv /\ e.srefs = 0 /\ ~e.sonce THEN FreeEntry ELSE e

\* The ports whose receive right travels in the messages of queue q.
RECURSIVE PortsInRights(_)
PortsInRights(rights) ==
    IF rights = << >> THEN {}
    ELSE (IF Head(rights).kind = "recv" THEN {Head(rights).port} ELSE {})
         \cup PortsInRights(Tail(rights))

RECURSIVE PortsInQueue(_)
PortsInQueue(q) ==
    IF q = << >> THEN {}
    ELSE PortsInRights(Head(q).rights) \cup PortsInQueue(Tail(q))

\* The death of port p: its queue is destroyed with the rights in it, and
\* the task's names for it become dead names.
RECURSIVE DestroyPorts(_, _)
DestroyPorts(K, S) ==
    IF S = {} THEN K
    ELSE LET p == CHOOSE x \in S : TRUE
             inner == PortsInQueue(K.ports[p].queue)
             K1 == [names |-> [n \in Names |->
                                 IF K.names[n].port = p THEN DeadEntry(K.names[n])
                                 ELSE K.names[n]],
                    ports |-> [K.ports EXCEPT ![p] =
                                 [state |-> "dead", queue |-> << >>]]]
         IN  DestroyPorts(K1, (S \ {p}) \cup {x \in inner : K1.ports[x].state = "alive"})

\* mach_port_mod_refs(task, name, right, -1): the status and the kernel after.
ModRefsReceive(K, n) ==
    LET e == K.names[n]
    IN  IF n \notin Names \/ EntryFree(K.names[n])
        THEN [status |-> "KERN_INVALID_NAME", k |-> K]
        ELSE IF ~e.recv THEN [status |-> "KERN_INVALID_RIGHT", k |-> K]
        ELSE [status |-> "KERN_SUCCESS",
              k |-> DestroyPorts([K EXCEPT !.names[n].recv = FALSE], {e.port})]

ModRefsSend(K, n) ==
    LET e == K.names[n]
    IN  IF n \notin Names \/ EntryFree(K.names[n])
        THEN [status |-> "KERN_INVALID_NAME", k |-> K]
        ELSE IF e.dead \/ e.srefs = 0 THEN [status |-> "KERN_INVALID_RIGHT", k |-> K]
        ELSE [status |-> "KERN_SUCCESS",
              k |-> [K EXCEPT !.names[n] = Normalize([e EXCEPT !.srefs = e.srefs - 1])]]

\* mach_port_type(task, name): the right-type bits of the name.
PortType(K, n) ==
    IF n \notin Names \/ EntryFree(K.names[n])
    THEN [status |-> "KERN_INVALID_NAME", send |-> FALSE, receive |-> FALSE]
    ELSE [status |-> "KERN_SUCCESS",
          send |-> ~K.names[n].dead /\ K.names[n].srefs > 0,
          receive |-> K.names[n].recv]

\* mach_port_extract_right(task, name, MACH_MSG_TYPE_MAKE_SEND): a send right
\* is made from the receive right and lands in the task under the name that
\* already denotes the port.
ExtractMakeSend(K, n) ==
    IF n \notin Names \/ EntryFree(K.names[n])
    THEN [status |-> "KERN_INVALID_NAME", k |-> K, port |-> 0, right |-> 0]
    ELSE IF ~K.names[n].recv
    THEN [status |-> "KERN_INVALID_RIGHT", k |-> K, port |-> 0, right |-> 0]
    ELSE [status |-> "KERN_SUCCESS",
          k |-> [K EXCEPT !.names[n].srefs = K.names[n].srefs + 1],
          port |-> n, right |-> MACH_MSG_TYPE_PORT_SEND]

NullRight == [kind |-> "null", port |-> 0]
DeadRight == [kind |-> "dead", port |-> 0]

\* Copy-in of one port descriptor (name, disposition) of a message sent.
CopyinRight(K, name, disp) ==
    IF name = MACH_PORT_NULL THEN [ok |-> TRUE, k |-> K, right |-> NullRight]
    ELSE IF name = MACH_PORT_DEAD THEN [ok |-> TRUE, k |-> K, right |-> DeadRight]
    ELSE IF name \notin Names \/ EntryFree(K.names[name])
    THEN [ok |-> FALSE, k |-> K, right |-> NullRight]
    ELSE
    LET e == K.names[name]
        fail == [ok |-> FALSE, k |-> K, right |-> NullRight]
        with(e2, r) == [ok |-> TRUE, k |-> [K EXCEPT !.names[name] = Normalize(e2)],
                        right |-> r]
    IN  CASE disp = MACH_MSG_TYPE_MOVE_RECEIVE ->
               IF e.recv THEN with([e EXCEPT !.recv = FALSE],
                                   [kind |-> "recv", port |-> e.port])
               ELSE fail
          [] disp = MACH_MSG_TYPE_MOVE_SEND ->
               IF e.dead THEN with([e EXCEPT !.srefs = e.srefs - 1,
                                             !.dead = e.srefs > 1], DeadRight)
               ELSE IF e.srefs > 0
               THEN with([e EXCEPT !.srefs = e.srefs - 1],
                         [kind |-> "send", port |-> e.port])
               ELSE fail
          [] disp = MACH_MSG_TYPE_MOVE_SEND_ONCE ->
               IF e.dead THEN with([e EXCEPT !.srefs = e.srefs - 1,
                                             !.dead = e.srefs > 1], DeadRight)
               ELSE IF e.sonce
               THEN with(FreeEntry, [kind |-> "sonce", port |-> e.port])
               ELSE fail
          [] disp = MACH_MSG_TYPE_COPY_SEND ->
               IF e.dead THEN with(e, DeadRight)
               ELSE IF e.srefs > 0 THEN with(e, [kind |-> "send", port |-> e.port])
               ELSE fail
          [] disp = MACH_MSG_TYPE_MAKE_SEND ->
               IF e.recv THEN with(e, [kind |-> "send", port |-> e.port]) ELSE fail
          [] disp = MACH_MSG_TYPE_MAKE_SEND_ONCE ->
               IF e.recv THEN with(e, [kind |-> "sonce", port |-> e.port]) ELSE fail
          [] OTHER -> fail

\* Copy-in of the descriptors descs, in order.  When one fails the rights
\* copied in before it are destroyed with the partial message.
RECURSIVE CopyinBody(_, _, _)
CopyinBody(K, descs, acc) ==
    IF descs = << >> THEN [ok |-> TRUE, k |-> K, rights |-> acc]
    ELSE LET d == Head(descs)
             r == IF d.type = MACH_MSG_PORT_DESCRIPTOR
                  THEN CopyinRight(K, d.name, d.disposition)
                  ELSE [ok |-> FALSE, k |-> K, right |-> NullRight]
         IN  IF r.ok THEN CopyinBody(r.k, Tail(descs), Append(acc, r.right))
             ELSE [ok |-> FALSE, k |-> DestroyPorts(K, PortsInRights(acc)),
                   rights |-> << >>]

\* Whether queueing the receive right of port p at port dest closes a cycle:
\* dest is p, or dest's own receive right travels in a message queued at a
\* port for which this holds.
RECURSIVE Circular(_, _, _, _)
Circular(K, p, dest, fuel) ==
    \/ p = dest
    \/ /\ fuel > 0
       /\ \E q \in KPortIds :
             /\ K.ports[q].state = "alive"
             /\ dest \in PortsInQueue(K.ports[q].queue)
             /\ Circular(K, p, q, fuel - 1)

MsgSize(m) == SizeOfMessageStart + SizeOfPortDescriptor * Len(m.rights) + Len(m.data)

\* The message the kernel reads from the buffer b of a send.
ParsedDescriptors(b) == IF complex(b) THEN descriptors(b) ELSE << >>

ParsedData(b) ==
    LET skip == IF complex(b) THEN SizeOfPortDescriptor * Len(descriptors(b)) ELSE 0
    IN  SubSeq(b.body, skip + 1, Len(b.body))

\* mach_msg(options) of buffer b, whose msgh_remote_port is set, where options
\* has MACH_SEND_MSG and not MACH_RCV_MSG: the status and the kernel after.
\* A send that finds the queue full gives up with MACH_SEND_TIMED_OUT when
\* options has MACH_SEND_TIMEOUT, and blocks otherwise (status "BLOCKED": the
\* call does not return).  MACH_RCV_TIMEOUT is read by the receive half only.
KernelSend(K, b, options) ==
    LET dest == b.msgh_remote_port
        unchanged(st) == [status |-> st, k |-> K]
    IN  IF b.msgh_size < SizeOfMessageStart - 4 \/ b.msgh_size % 4 # 0
        THEN unchanged("MACH_SEND_MSG_TOO_SMALL")
        ELSE IF b.msgh_bits.remote # MACH_MSG_TYPE_COPY_SEND \/ b.msgh_bits.local # 0 \/ b.msgh_local_port # MACH_PORT_NULL
        THEN unchanged("MACH_SEND_INVALID_HEADER")
        ELSE IF dest \notin Names \/ EntryFree(K.names[dest]) \/ K.names[dest].dead
                \/ K.names[dest].srefs = 0
        THEN unchanged("MACH_SEND_INVALID_DEST")
        ELSE
        LET dp == K.names[dest].port
            body == CopyinBody(K, ParsedDescriptors(b), << >>)
            m == [count |-> b.msgh_descriptor_count, complex |-> complex(b),
                  id |-> b.msgh_id, rights |-> body.rights, data |-> ParsedData(b),
                  reply |-> FALSE]
        IN  IF ~body.ok THEN [status |-> "MACH_SEND_INVALID_RIGHT", k |-> body.k]
            ELSE IF \E p \in PortsInRights(body.rights) : Circular(body.k, p, dp, MaxKPorts)
            THEN [status |-> "MACH_MSG_SUCCESS",
                  k |-> DestroyPorts(body.k, PortsInRights(body.rights))]
            ELSE IF Len(K.ports[dp].queue) >= QLimit
            THEN IF "MACH_SEND_TIMEOUT" \in options
                 THEN unchanged("MACH_SEND_TIMED_OUT")
                 ELSE unchanged("BLOCKED")
            ELSE [status |-> "MACH_MSG_SUCCESS",
                  k |-> [body.k EXCEPT !.ports[dp].queue = Append(@, m)]]

\* Copy-out of the rights of a received message into the task: the set of
\* outcomes [k, names], one per choice of the new names the kernel may give.
RECURSIVE CopyoutRights(_, _, _)
CopyoutRights(K, rights, acc) ==
    IF rights = << >> THEN {[k |-> K, names |-> acc]}
    ELSE
    LET r == Head(rights)
        rest(K2, n) == CopyoutRights(K2, Tail(rights), Append(acc, n))
        fresh(e) == UNION {rest([K EXCEPT !.names[n] = e], n) : n \in FreeNames(K)}
    IN  CASE r.kind = "null" -> rest(K, MACH_PORT_NULL)
          [] r.kind = "dead" -> rest(K, MACH_PORT_DEAD)
          [] r.kind = "recv" ->
               IF NamesOf(K, r.port) # {}
               THEN LET n == CHOOSE x \in NamesOf(K, r.port) : TRUE
                    IN  rest([K EXCEPT !.names[n].recv = TRUE], n)
               ELSE fresh([FreeEntry EXCEPT !.port = r.port, !.recv = TRUE])
          [] r.kind = "send" ->
               IF K.ports[r.port].state # "alive" THEN rest(K, MACH_PORT_DEAD)
               ELSE IF NamesOf(K, r.port) # {}
               THEN LET n == CHOOSE x \in NamesOf(K, r.port) : TRUE
                    IN  IF K.names[n].srefs < MaxRefs
                        THEN rest([K EXCEPT !.names[n].srefs = @ + 1], n)
                        ELSE {}
               ELSE fresh([FreeEntry EXCEPT !.port = r.port, !.srefs = 1])
          [] r.kind = "sonce" ->
               IF K.ports[r.port].state # "alive" THEN rest(K, MACH_PORT_DEAD)
               ELSE fresh([FreeEntry EXCEPT !.port = r.port, !.sonce = TRUE])

\* The bytes the kernel writes after MessageStart for message m received
\* with its rights under names: one port record per right, then the data.
RightDisposition(kind) ==
    CASE kind = "recv" -> MACH_MSG_TYPE_MOVE_RECEIVE
      [] kind = "sonce" -> MACH_MSG_TYPE_MOVE_SEND_ONCE
      [] OTHER -> MACH_MSG_TYPE_PORT_SEND

RECURSIVE ReceivedDescriptors(_, _)
ReceivedDescriptors(rights, names) ==
    IF rights = << >> THEN << >>
    ELSE PortDescriptorBytes(Head(names), RightDisposition(Head(rights).kind))
         \o ReceivedDescriptors(Tail(rights), Tail(names))

\* The mach_msg_trailer_t the kernel writes after a received message.
Trailer == <<0, 0, 0, 0, SizeOfTrailer, 0, 0, 0>>

\* The memory of buffer b after the kernel has written message m into it,
\* received on the port named rcv_name: body holds the bytes written after
\* MessageStart, the trailer included.
ReceivedBuffer(b, m, names, rcv_name, reply_name) ==
    [b EXCEPT !.msgh_bits = MsghBits(IF reply_name = MACH_PORT_NULL THEN 0
                                     ELSE MACH_MSG_TYPE_MOVE_SEND_ONCE,
                                     MACH_MSG_TYPE_PORT_SEND, m.complex),
              !.msgh_size = MsgSize(m),
              !.msgh_remote_port = reply_name,
              !.msgh_local_port = rcv_name,
              !.msgh_voucher_port = MACH_PORT_NULL,
              !.msgh_id = m.id,
              !.msgh_descriptor_count = m.count,
              !.body = ReceivedDescriptors(m.rights, names) \o m.data \o Trailer]

\* A port of another task, and the entry of a send-once right to it.
ForeignPort == MaxKPorts + 1

ReplyEntry == [FreeEntry EXCEPT !.port = ForeignPort, !.sonce = TRUE]

\* mach_msg(MACH_RCV_MSG | MACH_RCV_LARGE) on the port named rcv_name into
\* buffer b, with or without MACH_RCV_TIMEOUT: the set of outcomes
\* [status, k, b].  An empty queue without a timeout blocks: no outcome.
\* The reply right of the message is given a free name, which the kernel
\* writes to msgh_remote_port; with no name free the header is in error.
KernelRecv(K, b, rcv_name, timeout) ==
    IF rcv_name \notin Names \/ EntryFree(K.names[rcv_name]) \/ ~K.names[rcv_name].recv
    THEN {[status |-> "MACH_RCV_INVALID_NAME", k |-> K, b |-> b]}
    ELSE
    LET p == K.names[rcv_name].port
        q == K.ports[p].queue
    IN  IF q = << >>
        THEN IF timeout THEN {[status |-> "MACH_RCV_TIMED_OUT", k |-> K, b |-> b]}
             ELSE {}
        ELSE IF MsgSize(Head(q)) + SizeOfTrailer > b.capacity
        THEN {[status |-> "MACH_RCV_TOO_LARGE", k |-> K,
               b |-> [b EXCEPT !.msgh_size = MsgSize(Head(q)) + SizeOfTrailer]]}
        ELSE LET K1 == [K EXCEPT !.ports[p].queue = Tail(q)]
             IN  IF ~Head(q).reply
                 THEN {[status |-> "MACH_MSG_SUCCESS", k |-> o.k,
                        b |-> ReceivedBuffer(b, Head(q), o.names, rcv_name, MACH_PORT_NULL)]
                       : o \in CopyoutRights(K1, Head(q).rights, << >>)}
                 ELSE IF FreeNames(K1) = {}
                 THEN {[status |-> "MACH_RCV_HEADER_ERROR", k |-> o.k,
                        b |-> ReceivedBuffer(b, Head(q), o.names, rcv_name, MACH_PORT_NULL)]
                       : o \in CopyoutRights(K1, Head(q).rights, << >>)}
                 ELSE UNION {
                        {[status |-> "MACH_MSG_SUCCESS", k |-> o.k,
                          b |-> ReceivedBuffer(b, Head(q), o.names, rcv_name, n)]
                         : o \in CopyoutRights(
                                    [K1 EXCEPT !.names[n] = ReplyEntry], Head(q).rights, << >>)}
                        : n \in FreeNames(K1)}

(***************************************************************************)
(* The state.                                                              *)
(*   ports     the Port values ever constructed: "none" (not yet), "live", *)
(*             "dropped" (destructor ran) or "moved" (into_raw_port), with *)
(*             the fields port, has_receive, has_send                      *)
(*   kern      the kernel                                                  *)
(*   buf       the MsgBuffer of the caller                                 *)
(*   fault     "none", "panic" (a debug_assert! failed in a build with     *)
(*             assertions) or "ub" (the build without them went on past    *)
(*             the failed assertion); either ends the behaviour            *)
(*   last      the last operation, its Port and the kernel statuses        *)
(*   decs      per Port value, the mach_port_mod_refs calls issued on its  *)
(*             behalf, in order: [right, name, delta, status]              *)
(*   excused   whether a buffer was reset or discarded while it held a     *)
(*             right not yet sent or taken                                 *)
(*   reserved  the bytes left of the last reserve_inline_data, -1 once an  *)
(*             operation other than extend_inline_data has intervened      *)
(*   conv      the last convert_timeout call: the Duration given (secs as  *)
(*             a u64, subsec_millis) and the mach_msg_timeout_t returned,  *)
(*             -1 before the call returns                                  *)
(***************************************************************************)
VARIABLES ports, kern, buf, fault, last, decs, excused, reserved, conv

vars == <<ports, kern, buf, fault, last, decs, excused, reserved, conv>>

NoConv == [secs |-> <<0, 0, 0, 0>>, subsec_millis |-> 0, result |-> -1]

NoPort == [st |-> "none", port |-> 0, has_receive |-> FALSE, has_send |-> FALSE]

Live(id) == ports[id].st = "live"

Unused == {id \in PortValIds : ports[id].st = "none"}

\* The id the next Port value gets.
NextId == CHOOSE id \in Unused : \A j \in Unused : id <= j

Op(op, pid, res, res2) == [op |-> op, pid |-> pid, res |-> res, res2 |-> res2]

\* The port records of the buffer whose name is a right not yet sent or
\* taken by a Port.
HeldDescriptors(b) ==
    {i \in 1..Len(descriptors(b)) :
        /\ descriptors(b)[i].name \notin {MACH_PORT_NULL, MACH_PORT_DEAD}
        /\ descriptors(b)[i].disposition \in
              {MACH_MSG_TYPE_MOVE_RECEIVE, MACH_MSG_TYPE_MOVE_SEND,
               MACH_MSG_TYPE_MOVE_SEND_ONCE}}

\* Whether the content of the buffer was written by a receive.
BufReceived(b) == b.msgh_local_port # MACH_PORT_NULL

Running == fault = "none"

Init ==
    /\ ports = [id \in PortValIds |-> NoPort]
    /\ kern = KernelInit
    /\ buf = MsgBufferNew
    /\ fault = "none"
    /\ last = Op("init", 0, "-", "-")
    /\ decs = [id \in PortValIds |-> << >>]
    /\ excused = FALSE
    /\ reserved = -1
    /\ conv = NoConv

(***************************************************************************)
(* Port                                                                    *)
(***************************************************************************)
\* Port::new: mach_port_allocate(MACH_PORT_RIGHT_RECEIVE).  The kernel gives
\* any free name; with no name or port left the call fails.
PortNew ==
    /\ Running /\ Unused # {}
    /\ LET free == {p \in KPortIds : kern.ports[p].state = "unused"}
       IN  IF free = {} \/ FreeNames(kern) = {}
           THEN /\ last' = Op("new", 0, "KERN_NO_SPACE", "-")
                /\ UNCHANGED <<ports, kern>>
           ELSE \E n \in FreeNames(kern) :
                  LET p == CHOOSE x \in free : \A y \in free : x <= y
                  IN  /\ kern' = [kern EXCEPT
                                    !.names[n] = [FreeEntry EXCEPT !.port = p, !.recv = TRUE],
                                    !.ports[p].state = "alive"]
                      /\ ports' = [ports EXCEPT ![NextId] =
                                     [st |-> "live", port |-> n,
                                      has_receive |-> TRUE, has_send |-> FALSE]]
                      /\ last' = Op("new", NextId, "KERN_SUCCESS", "-")
    /\ reserved' = -1
    /\ UNCHANGED <<buf, fault, decs, excused>>
    /\ UNCHANGED conv

\* A from_raw_port that reads each flag from the other bit.
from_raw_port_swapped(K, name) ==
    LET ty == PortType(K, name)
    IN  [ok |-> ty.status = "KERN_SUCCESS",
         status |-> ty.status,
         value |-> [st |-> "live", port |-> name,
                    has_receive |-> ty.send, has_send |-> ty.receive]]

\* A from_raw_port that never claims the receive right.
from_raw_port_no_receive(K, name) ==
    LET ty == PortType(K, name)
    IN  [ok |-> ty.status = "KERN_SUCCESS",
         status |-> ty.status,
         value |-> [st |-> "live", port |-> name,
                    has_receive |-> FALSE, has_send |-> ty.send]]

\* Port::from_raw_port: the Port made for name, or none when mach_port_type
\* fails.
from_raw_port(K, name) ==
    LET ty == PortType(K, name)
    IN  [ok |-> ty.status = "KERN_SUCCESS",
         status |-> ty.status,
         value |-> [st |-> "live", port |-> name,
                    has_receive |-> ty.receive, has_send |-> ty.send]]

\* The test of the right type mach_port_extract_right reports.
RightIsSendAlways(right) == TRUE

RightIsSend(right) == right = MACH_MSG_TYPE_PORT_SEND

\* Port::make_sender, r being what mach_port_extract_right gave.
MakeSenderGiven(id, r) ==
    /\ Running /\ Live(id) /\ Unused # {}
    /\ r.status = "KERN_SUCCESS" => kern.names[ports[id].port].srefs < MaxRefs
    /\ kern' = r.k
    /\ IF r.status # "KERN_SUCCESS"
       THEN /\ last' = Op("make_sender", 0, r.status, "-")
            /\ UNCHANGED ports
       ELSE IF ~RightIsSend(r.right)
       THEN /\ last' = Op("make_sender", 0, "UnexpectedRightType", "-")
            /\ UNCHANGED ports
       ELSE /\ ports' = [ports EXCEPT ![NextId] =
                           [st |-> "live", port |-> r.port,
                            has_receive |-> FALSE, has_send |-> TRUE]]
            /\ last' = Op("make_sender", NextId, r.status, "-")
    /\ reserved' = -1
    /\ UNCHANGED <<buf, fault, decs, excused>>
    /\ UNCHANGED conv

\* Port::make_sender
MakeSender(id) == MakeSenderGiven(id, ExtractMakeSend(kern, ports[id].port))

\* Port::make_sender when the right type the kernel reports is not taken for
\* granted: the kernel this model describes reports MACH_MSG_TYPE_PORT_SEND
\* for MACH_MSG_TYPE_MAKE_SEND, and the code tests for any other.
ReportedRights ==
    {MACH_MSG_TYPE_PORT_SEND, MACH_MSG_TYPE_MOVE_RECEIVE, MACH_MSG_TYPE_MOVE_SEND_ONCE}

MakeSenderReported(id, right) ==
    LET r == ExtractMakeSend(kern, ports[id].port)
    IN  MakeSenderGiven(id, IF r.status = "KERN_SUCCESS" THEN [r EXCEPT !.right = right] ELSE r)

\* Whether Drop writes an error to the log for the status of the release of
\* the receive right (mach_call!(log: ...)).
ReceiveReleaseReported(status) == status # "KERN_SUCCESS"

\* A drop that reports every refused release of the send right.
SendReleaseReportedStrict(status) == status # "KERN_SUCCESS"

\* Whether Drop writes an error to the log for the status of the release of
\* the send right (the match of lines 23-29).
SendReleaseReported(status) == status \notin {"KERN_SUCCESS", "KERN_INVALID_RIGHT"}

\* A mach_port_mod_refs call as recorded, with whether its status was
\* written to the log.
ModRefsCall(right, name, status) ==
    [right |-> right, name |-> name, delta |-> -1, status |-> status,
     reported |-> IF right = "MACH_PORT_RIGHT_SEND" THEN SendReleaseReported(status)
                  ELSE ReceiveReleaseReported(status)]

\* Drop for Port: the release of the receive right (lines 18-20), then of
\* the send right (lines 21-30): the kernel after, the status ("-" when the
\* right is not held) and the calls made.
DropReceive(K, pv) ==
    IF pv.has_receive
    THEN LET r == ModRefsReceive(K, pv.port)
         IN  [k |-> r.k, status |-> r.status,
              calls |-> <<ModRefsCall("MACH_PORT_RIGHT_RECEIVE", pv.port, r.status)>>]
    ELSE [k |-> K, status |-> "-", calls |-> << >>]

\* A release of the send right that is tried again when the kernel refuses.
DropSendRetry(K, pv) ==
    IF pv.has_send
    THEN LET r == ModRefsSend(K, pv.port)
             c == ModRefsCall("MACH_PORT_RIGHT_SEND", pv.port, r.status)
         IN  [k |-> r.k, status |-> r.status,
              calls |-> IF r.status = "KERN_SUCCESS" THEN <<c>> ELSE <<c, c>>]
    ELSE [k |-> K, status |-> "-", calls |-> << >>]

DropSend(K, pv) ==
    IF pv.has_send
    THEN LET r == ModRefsSend(K, pv.port)
         IN  [k |-> r.k, status |-> r.status,
              calls |-> <<ModRefsCall("MACH_PORT_RIGHT_SEND", pv.port, r.status)>>]
    ELSE [k |-> K, status |-> "-", calls |-> << >>]

PortDrop(id) ==
    /\ Running /\ Live(id)
    /\ LET r1 == DropReceive(kern, ports[id])
           r2 == DropSend(r1.k, ports[id])
       IN  /\ kern' = r2.k
           /\ last' = Op("drop", id, r1.status, r2.status)
           /\ decs' = [decs EXCEPT ![id] = @ \o r1.calls \o r2.calls]
    /\ ports' = [ports EXCEPT ![id].st = "dropped"]
    /\ reserved' = -1
    /\ UNCHANGED <<buf, fault, excused>>
    /\ UNCHANGED conv

(***************************************************************************)
(* MsgBuffer                                                               *)
(***************************************************************************)
\* MsgBuffer::new, the previous buffer being discarded.
BufferNew ==
    /\ Running
    /\ buf' = MsgBufferNew
    /\ excused' = (excused \/ HeldDescriptors(buf) # {})
    /\ last' = Op("buffer_new", 0, "-", "-")
    /\ reserved' = -1
    /\ UNCHANGED <<ports, kern, fault, decs>>
    /\ UNCHANGED conv

\* MsgBuffer::reset
Reset ==
    /\ Running
    /\ buf' = BufReset(buf)
    /\ excused' = (excused \/ HeldDescriptors(buf) # {})
    /\ last' = Op("reset", 0, "-", "-")
    /\ reserved' = -1
    /\ UNCHANGED <<ports, kern, fault, decs>>
    /\ UNCHANGED conv

\* MsgBuffer::reserve_inline_data(additional)
ReserveInlineData(additional) ==
    /\ Running
    /\ IF WalkFaults(buf) # {}
       THEN /\ fault' \in WalkFaults(buf)
            /\ buf' = buf
            /\ reserved' = -1
       ELSE IF InlineDataAssert(buf)
       THEN /\ buf' = reserve_inline_data(buf, additional)
            /\ fault' = fault
            /\ reserved' = additional
       ELSE /\ \/ fault' = "panic" /\ buf' = buf
               \/ fault' = "ub" /\ buf' = reserve_inline_data(buf, additional)
            /\ reserved' = -1
    /\ last' = Op("reserve_inline_data", 0, "-", "-")
    /\ UNCHANGED <<ports, kern, decs, excused>>
    /\ UNCHANGED conv

\* MsgBuffer::reserve_descriptors(additional)
ReserveDescriptors(additional) ==
    /\ Running
    /\ buf' = reserve_descriptors(buf, additional)
    /\ last' = Op("reserve_descriptors", 0, "-", "-")
    /\ reserved' = -1
    /\ UNCHANGED <<ports, kern, fault, decs, excused>>
    /\ UNCHANGED conv

\* MsgBuffer::extend_inline_data(data)
ExtendInlineData(data) ==
    /\ Running
    /\ IF WalkFaults(buf) # {}
       THEN /\ fault' \in WalkFaults(buf)
            /\ buf' = buf
       ELSE IF InlineDataAssert(buf) /\ ExtendAssert(ExtendReserve(buf, Len(data)), Len(data))
       THEN /\ buf' = extend_inline_data(buf, data)
            /\ fault' = fault
       ELSE \/ fault' = "panic" /\ buf' = buf
            \/ fault' = "ub" /\ buf' = extend_inline_data(buf, data)
    /\ reserved' = (IF reserved >= Len(data) THEN reserved - Len(data) ELSE -1)
    /\ last' = Op("extend_inline_data", 0, "-", "-")
    /\ UNCHANGED <<ports, kern, decs, excused>>
    /\ UNCHANGED conv

\* MsgBuffer::copy_right(mode, &port)
CopyRight(mode, id) ==
    /\ Running /\ Live(id)
    /\ IF WalkFaults(buf) # {}
       THEN /\ fault' \in WalkFaults(buf)
            /\ buf' = buf
       ELSE /\ buf' = copy_right_raw(buf, mode, ports[id].port)
            /\ fault' = fault
    /\ last' = Op("copy_right", 0, mode, "-")
    /\ reserved' = -1
    /\ UNCHANGED <<ports, kern, decs, excused>>
    /\ UNCHANGED conv

\* An into_raw_port that leaves the Port value to its destructor.
into_raw_port_kept(pv) == pv

\* Port::into_raw_port: the Port value is forgotten, its destructor never runs.
into_raw_port(pv) == [pv EXCEPT !.st = "moved"]

\* MsgBuffer::move_right(mode, port)
MoveRight(mode, id) ==
    /\ Running /\ Live(id)
    /\ ports' = [ports EXCEPT ![id] = into_raw_port(ports[id])]
    /\ IF WalkFaults(buf) # {}
       THEN /\ fault' \in WalkFaults(buf)
            /\ buf' = buf
       ELSE /\ buf' = move_right_raw(buf, mode, ports[id].port)
            /\ fault' = fault
    /\ last' = Op("move_right", id, mode, "-")
    /\ reserved' = -1
    /\ UNCHANGED <<kern, decs, excused>>
    /\ UNCHANGED conv

(***************************************************************************)
(* Port::send, Port::recv, MsgPortDescriptor::take_port                    *)
(***************************************************************************)
\* A set_len that keeps the trailer the kernel wrote within the length.
SetLenWithTrailer(b, len) ==
    [b EXCEPT !.body = SubSeq(b.body, 1, len - SizeOfMessageStart + SizeOfTrailer)]

\* Vec::set_len(len) on the memory the kernel wrote.
SetLen(b, len) == [b EXCEPT !.body = SubSeq(b.body, 1, len - SizeOfMessageStart)]

\* A send that leaves msgh_remote_port as the call had it.
ClearRemoteNot(b) == b

\* msg.header_mut().msgh_remote_port = MACH_PORT_NULL, after the call.
ClearRemote(b) == [b EXCEPT !.msgh_remote_port = MACH_PORT_NULL]

\* The option bits Port::send hands to mach_msg.
SendOptions(timeout) ==
    {"MACH_SEND_MSG"} \cup (IF timeout THEN {"MACH_RCV_TIMEOUT"} ELSE {})

\* Port::send.  The timeout only sets MACH_RCV_TIMEOUT, which a send does
\* not read: a send on a full queue blocks with or without it.
Send(id, timeout) ==
    /\ Running /\ Live(id)
    /\ IF buf.msgh_size > BufLen(buf)
       THEN \* the kernel is handed msgh_size bytes of a shorter buffer
            /\ fault' = "ub"
            /\ last' = Op("send", 0, "-", "-")
            /\ buf' = ClearRemote(buf)
            /\ UNCHANGED kern
       ELSE LET b1 == [buf EXCEPT !.msgh_remote_port = ports[id].port]
                r == KernelSend(kern, b1, SendOptions(timeout))
                b2 == ClearRemote(b1)
            IN  /\ r.status # "BLOCKED"
                /\ kern' = r.k
                /\ buf' = (IF r.status = "MACH_MSG_SUCCESS" THEN BufResetOnSend(b2) ELSE b2)
                /\ last' = Op("send", 0, r.status, "-")
                /\ fault' = fault
    /\ reserved' = -1
    /\ UNCHANGED <<ports, decs, excused>>
    /\ UNCHANGED conv

\* A receive that, told the message is too large, grows the buffer to the
\* size the kernel reported and calls mach_msg again.
recv_mach_msg_retry(K, b, rcv_name, timeout) ==
    UNION {IF o.status = "MACH_RCV_TOO_LARGE"
           THEN KernelRecv(o.k, [o.b EXCEPT !.capacity = o.b.msgh_size], rcv_name, timeout)
           ELSE {o}
           : o \in KernelRecv(K, b, rcv_name, timeout)}

\* The mach_msg call of Port::recv (lines 121-129): one call, whatever it
\* returns.
recv_mach_msg(K, b, rcv_name, timeout) == KernelRecv(K, b, rcv_name, timeout)

\* Port::recv
Recv(id, timeout) ==
    /\ Running /\ Live(id)
    /\ \E o \in recv_mach_msg(kern, buf, ports[id].port, timeout) :
          /\ kern' = o.k
          /\ buf' = (IF o.status = "MACH_MSG_SUCCESS" THEN SetLen(o.b, o.b.msgh_size)
                     ELSE o.b)
          /\ excused' = (excused \/ (o.status = "MACH_MSG_SUCCESS"
                                      /\ HeldDescriptors(buf) # {}))
          /\ last' = Op("recv", 0, o.status, "-")
    /\ reserved' = -1
    /\ UNCHANGED <<ports, fault, decs>>
    /\ UNCHANGED conv

\* A take_raw_port that leaves the name in the record.
take_raw_port_kept(body, off) ==
    LET name == U32At(body, off)
    IN  IF name = MACH_PORT_NULL \/ name = MACH_PORT_DEAD
        THEN [name |-> MACH_PORT_NULL, body |-> body]
        ELSE [name |-> name, body |-> body]

\* MsgPortDescriptor::take_raw_port on the record at byte offset off: the
\* name taken (MACH_PORT_NULL for none) and the body after.
take_raw_port(body, off) ==
    LET name == U32At(body, off)
    IN  IF name = MACH_PORT_NULL \/ name = MACH_PORT_DEAD
        THEN [name |-> MACH_PORT_NULL, body |-> body]
        ELSE [name |-> name,
              body |-> SubSeq(body, 1, off) \o U32Bytes(MACH_PORT_NULL)
                       \o SubSeq(body, off + 5, Len(body))]

\* MsgPortDescriptor::take_port on the i-th record of a received message.
TakePort(i) ==
    /\ Running
    /\ BufReceived(buf) /\ buf.msgh_size = BufLen(buf)
    /\ i \in 1..Len(descriptors(buf))
    /\ descriptors(buf)[i].type = MACH_MSG_PORT_DESCRIPTOR
    /\ Unused # {} \/ descriptors(buf)[i].name \in {MACH_PORT_NULL, MACH_PORT_DEAD}
    /\ LET off == WalkDescriptors(buf.body, 0, i - 1)
           t == take_raw_port(buf.body, off)
           r == from_raw_port(kern, t.name)
       IN  /\ buf' = [buf EXCEPT !.body = t.body]
           /\ IF t.name = MACH_PORT_NULL
              THEN /\ last' = Op("take_port", 0, "None", "-")
                   /\ UNCHANGED ports
              ELSE IF r.ok
              THEN /\ ports' = [ports EXCEPT ![NextId] = r.value]
                   /\ last' = Op("take_port", NextId, "Some", "-")
              ELSE /\ last' = Op("take_port", 0, r.status, "-")
                   /\ UNCHANGED ports
    /\ reserved' = -1
    /\ UNCHANGED <<kern, fault, decs, excused>>
    /\ UNCHANGED conv

(***************************************************************************)
(* Spec: Port values, rights and messages carrying rights.                 *)
(***************************************************************************)
\* The Port values constructed so far.
UsedCount == Cardinality(PortValIds \ Unused)

\* The messages queued at the port a send through Port id goes to.
DestQueueLen(id) ==
    LET n == ports[id].port
    IN  IF n \in Names /\ kern.names[n].port \in KPortIds
        THEN Len(kern.ports[kern.names[n].port].queue)
        ELSE 0

CopyModes == {"Send", "MakeSend", "MakeSendOnce"}
MoveModes == {"Receive", "Send", "SendOnce"}

\* The modes Spec attaches rights with.
SpecCopyModes == {"Send", "MakeSend"}
SpecMoveModes == {"Receive", "Send", "SendOnce"}

Next ==
    \/ UsedCount < SpecPortVals /\ PortNew
    \/ \E id \in PortValIds : UsedCount < SpecPortVals /\ MakeSender(id)
    \/ \E id \in PortValIds : PortDrop(id)
    \/ \E id \in PortValIds, mode \in SpecCopyModes :
          descriptor_count(buf) < MaxDesc /\ CopyRight(mode, id)
    \/ \E id \in PortValIds, mode \in SpecMoveModes :
          descriptor_count(buf) < MaxDesc /\ MoveRight(mode, id)
    \/ \E id \in PortValIds, timeout \in BOOLEAN :
          DestQueueLen(id) < MaxQueued /\ Send(id, timeout)
    \/ \E id \in PortValIds, timeout \in BOOLEAN : Recv(id, timeout)
    \/ \E i \in 1..MaxDesc :
          TakePort(i) /\ (UsedCount < SpecPortVals \/ last'.res = "None")
    \/ Reset

Spec == Init /\ [][Next]_vars

(***************************************************************************)
(* SpecBuf: one MsgBuffer built, sent, discarded and received into, by a   *)
(* task that has made a port and a sender for it (Receiver, Sender) and a  *)
(* second port (Other) whose rights it attaches to messages.               *)
(***************************************************************************)
\* The arguments of extend_inline_data, reserve_inline_data and
\* reserve_descriptors, and the modes rights are attached with.
Chunks == {<<7>>, <<1, 2, 3, 4>>}
ReserveInlineSizes == {4}
ReserveDescriptorCounts == {1}
BufCopyModes == {"Send", "MakeSend"}
BufMoveModes == {"Receive"}

Receiver == 1
Sender == 2
Other == 3

InitBuf ==
    /\ ports = [id \in PortValIds |->
                  IF id = Receiver
                  THEN [st |-> "live", port |-> 1, has_receive |-> TRUE, has_send |-> FALSE]
                  ELSE IF id = Sender
                  THEN [st |-> "live", port |-> 1, has_receive |-> FALSE, has_send |-> TRUE]
                  ELSE IF id = Other
                  THEN [st |-> "live", port |-> 2, has_receive |-> TRUE, has_send |-> FALSE]
                  ELSE NoPort]
    /\ kern = [KernelInit EXCEPT
                 !.names[1] = [FreeEntry EXCEPT !.port = 1, !.recv = TRUE, !.srefs = 1],
                 !.names[2] = [FreeEntry EXCEPT !.port = 2, !.recv = TRUE],
                 !.ports[1].state = "alive",
                 !.ports[2].state = "alive"]
    /\ buf = MsgBufferNew
    /\ fault = "none"
    /\ last = Op("init", 0, "-", "-")
    /\ decs = [id \in PortValIds |-> << >>]
    /\ excused = FALSE
    /\ reserved = -1
    /\ conv = NoConv

NextBuf ==
    \/ BufferNew
    \/ Reset
    \/ \E n \in ReserveInlineSizes :
          InlineLen(buf) + n <= MaxInline /\ ReserveInlineData(n)
    \/ \E n \in ReserveDescriptorCounts :
          descriptor_count(buf) + n <= MaxDescBuf /\ ReserveDescriptors(n)
    \/ \E data \in Chunks :
          InlineLen(buf) + Len(data) <= MaxInline /\ ExtendInlineData(data)
    \/ \E mode \in BufCopyModes :
          descriptor_count(buf) < MaxDescBuf /\ CopyRight(mode, Other)
    \/ \E mode \in BufMoveModes :
          descriptor_count(buf) < MaxDescBuf /\ MoveRight(mode, Other)
    \/ \E timeout \in BOOLEAN : DestQueueLen(Sender) < MaxQueued /\ Send(Sender, timeout)
    \/ \E timeout \in BOOLEAN : Recv(Receiver, timeout)

SpecBuf == InitBuf /\ [][NextBuf]_vars

(***************************************************************************)
(* SpecFifo: messages of inline bytes, with at most one descriptor, sent   *)
(* through Sender and received on Receiver, the queue holding up to QLimit *)
(* of them.                                                                *)
(***************************************************************************)
NextFifo ==
    \/ BufferNew
    \/ \E data \in Chunks :
          InlineLen(buf) + Len(data) <= MaxInline /\ ExtendInlineData(data)
    \/ descriptor_count(buf) < MaxDesc /\ CopyRight("MakeSend", Other)
    \/ \E timeout \in BOOLEAN : Send(Sender, timeout)
    \/ \E timeout \in BOOLEAN : Recv(Receiver, timeout)

SpecFifo == InitBuf /\ [][NextFifo]_vars

(***************************************************************************)
(* SpecMove: the receive right of Other is moved into a message sent       *)
(* through Sender, received on Receiver and taken out as a new Port value; *)
(* Port values are dropped at any time.                                    *)
(***************************************************************************)
NextMove ==
    \/ BufferNew
    \/ descriptor_count(buf) < MaxDesc /\ MoveRight("Receive", Other)
    \/ \E timeout \in BOOLEAN : DestQueueLen(Sender) < MaxQueued /\ Send(Sender, timeout)
    \/ \E timeout \in BOOLEAN : Recv(Receiver, timeout)
    \/ \E i \in 1..MaxDesc : TakePort(i)
    \/ \E id \in PortValIds : PortDrop(id)

SpecMove == InitBuf /\ [][NextMove]_vars

(***************************************************************************)
(* SpecGrant: Port values made and dropped, the right type reported by     *)
(* mach_port_extract_right being any of ReportedRights.                    *)
(***************************************************************************)
NextGrant ==
    \/ PortNew
    \/ \E id \in PortValIds, right \in ReportedRights : MakeSenderReported(id, right)
    \/ \E id \in PortValIds : PortDrop(id)

SpecGrant == Init /\ [][NextGrant]_vars

(***************************************************************************)
(* SpecWalk: messages of another task, which holds a send right to the     *)
(* Receiver's port, are received and their descriptor chain is walked.     *)
(* The kernel checks the records of a complex message only; in a message   *)
(* without MACH_MSGH_BITS_COMPLEX the word Msg reads as the descriptor     *)
(* count and the bytes it reads as records are the sender's payload.       *)
(***************************************************************************)
UnknownTag == 9

\* Twelve payload bytes that read as a record of unknown type.
UnknownRecord == <<0, 0, 0, 0, 0, 0, 0, 0, 0, 0, 0, UnknownTag>>

ForeignMessages ==
    { [count |-> 0, complex |-> FALSE, id |-> 0, rights |-> << >>, reply |-> FALSE,
       data |-> <<1, 2, 3, 4>>],
      [count |-> 1, complex |-> FALSE, id |-> 0, rights |-> << >>, reply |-> FALSE,
       data |-> PortDescriptorBytes(MACH_PORT_NULL, MACH_MSG_TYPE_PORT_SEND) \o <<1, 2, 3, 4>>],
      [count |-> 1, complex |-> FALSE, id |-> 0, rights |-> << >>, reply |-> FALSE,
       data |-> UnknownRecord \o <<1, 2, 3, 4>>],
      [count |-> 2, complex |-> FALSE, id |-> 0, rights |-> << >>, reply |-> FALSE,
       data |-> PortDescriptorBytes(MACH_PORT_NULL, MACH_MSG_TYPE_PORT_SEND)
                \o UnknownRecord \o <<1, 2, 3, 4>>] }

\* mach_msg(MACH_SEND_MSG) of message m by the other task to the port the
\* Receiver names.
ForeignSend(m) ==
    /\ Running /\ Live(Receiver)
    /\ LET p == kern.names[ports[Receiver].port].port
       IN  /\ kern.ports[p].state = "alive"
           /\ Len(kern.ports[p].queue) < MaxQueued
           /\ kern' = [kern EXCEPT !.ports[p].queue = Append(@, m)]
    /\ UNCHANGED <<ports, buf, fault, last, decs, excused, reserved, conv>>

\* for d in msg.descriptors() { }: the iterator is run to its end.
IterDescriptors ==
    /\ Running
    /\ IF WalkFaults(buf) # {} THEN fault' \in WalkFaults(buf) ELSE fault' = fault
    /\ last' = Op("descriptors", 0, "-", "-")
    /\ UNCHANGED <<ports, kern, buf, decs, excused, reserved, conv>>

\* msg.inline_data()
InlineData ==
    /\ Running
    /\ IF WalkFaults(buf) # {} THEN fault' \in WalkFaults(buf)
       ELSE IF InlineDataAssert(buf) THEN fault' = fault
       ELSE fault' \in {"panic", "ub"}
    /\ last' = Op("inline_data", 0, "-", "-")
    /\ UNCHANGED <<ports, kern, buf, decs, excused, reserved, conv>>

WalkReserveCounts == {2}
WalkChunks == {<<1, 2, 3, 4>>}

\* The longest buffer extend_inline_data is let to make.
MaxWalkLen == SizeOfMessageStart + 2 * SizeOfPortDescriptor + 8

NextWalk ==
    \/ BufferNew
    \/ Reset
    \/ \E n \in ReserveInlineSizes : ReserveInlineData(n)
    \/ \E n \in WalkReserveCounts : ReserveDescriptors(n)
    \/ \E m \in ForeignMessages : ForeignSend(m)
    \/ \E timeout \in BOOLEAN : Recv(Receiver, timeout)
    \/ IterDescriptors
    \/ InlineData
    \/ \E data \in WalkChunks : BufLen(buf) + Len(data) <= MaxWalkLen /\ ExtendInlineData(data)
    \/ descriptor_count(buf) < MaxDescBuf /\ CopyRight("MakeSend", Other)

SpecWalk == InitBuf /\ [][NextWalk]_vars

(***************************************************************************)
(* SpecExtend: a message with descriptors is sent, received into a buffer  *)
(* made and reserved for it, and inline data is appended to the buffer     *)
(* that holds the received message.                                        *)
(***************************************************************************)
MaxExtend == 9

NextExtend ==
    \/ BufferNew
    \/ \E n \in ReserveInlineSizes : InlineLen(buf) = 0 /\ ReserveInlineData(n)
    \/ descriptor_count(buf) < MaxDescBuf /\ CopyRight("MakeSend", Other)
    \/ descriptor_count(buf) < MaxDescBuf /\ MoveRight("Receive", Other)
    \/ \E timeout \in BOOLEAN : DestQueueLen(Sender) < MaxQueued /\ Send(Sender, timeout)
    \/ \E timeout \in BOOLEAN : Recv(Receiver, timeout)
    \/ \E data \in Chunks :
          InlineLen(buf) + Len(data) <= MaxExtend /\ ExtendInlineData(data)

SpecExtend == InitBuf /\ [][NextExtend]_vars

(***************************************************************************)
(* Calls that wait.  Port::send and Port::recv sit in mach_msg until the   *)
(* kernel lets the call return; the caller does nothing else meanwhile.    *)
(* last records the call in progress: res = "CALLING", pid the Port and    *)
(* res2 whether a timeout was given.                                       *)
(***************************************************************************)
\* rust_from_mach_error: the io::ErrorKind of a mach_msg return code.
rust_from_mach_error_other(code) == "Other"

rust_from_mach_error(code) ==
    IF code \in {"MACH_SEND_TIMED_OUT", "MACH_RCV_TIMED_OUT"} THEN "TimedOut" ELSE "Other"

\* mach_call!: Ok for return code 0, else the error kind.
mach_call(code) ==
    IF code = "MACH_MSG_SUCCESS" THEN "Ok" ELSE rust_from_mach_error(code)

Calling == last.res = "CALLING"

TimeoutArg(timeout) == IF timeout THEN "Some" ELSE "None"

\* Port::send up to its mach_msg call.
SendCall(id, timeout) ==
    /\ Running /\ Live(id) /\ ~Calling
    /\ buf' = [buf EXCEPT !.msgh_remote_port = ports[id].port]
    /\ last' = Op("send", id, "CALLING", TimeoutArg(timeout))
    /\ UNCHANGED <<ports, kern, fault, decs, excused, reserved>>
    /\ UNCHANGED conv

\* Port::send from the return of mach_msg on.
SendReturn ==
    /\ Calling /\ last.op = "send"
    /\ Send(last.pid, last.res2 = "Some")

\* Port::recv up to its mach_msg call.
RecvCall(id, timeout) ==
    /\ Running /\ Live(id) /\ ~Calling
    /\ last' = Op("recv", id, "CALLING", TimeoutArg(timeout))
    /\ UNCHANGED <<ports, kern, buf, fault, decs, excused, reserved>>
    /\ UNCHANGED conv

\* Port::recv from the return of mach_msg on.
RecvReturn ==
    /\ Calling /\ last.op = "recv"
    /\ Recv(last.pid, last.res2 = "Some")

NextWait ==
    \/ ~Calling /\ BufferNew
    \/ \E data \in Chunks :
          ~Calling /\ InlineLen(buf) + Len(data) <= MaxInline /\ ExtendInlineData(data)
    \/ \E timeout \in BOOLEAN : SendCall(Sender, timeout)
    \/ SendReturn
    \/ \E timeout \in BOOLEAN : RecvCall(Receiver, timeout)
    \/ RecvReturn

\* A mach_msg call that the kernel can complete does return: a message that
\* fits is queued, a queued message is delivered, and a receive timeout
\* elapses.
SpecWait ==
    InitBuf /\ [][NextWait]_vars /\ WF_vars(SendReturn) /\ WF_vars(RecvReturn)

(***************************************************************************)
(* SpecReply: sends seen from their call to their return, and receives of  *)
(* messages of another task, some of which carry a reply port.  Only the   *)
(* Receiver and its Sender exist, so that the task has a name free.        *)
(***************************************************************************)
ReplyMessages ==
    { [count |-> 0, complex |-> FALSE, id |-> 0, rights |-> << >>, reply |-> r,
       data |-> <<1, 2, 3, 4>>] : r \in BOOLEAN }

InitReply ==
    /\ ports = [id \in PortValIds |->
                  CASE id = Receiver -> [st |-> "live", port |-> 1,
                                         has_receive |-> TRUE, has_send |-> FALSE]
                    [] id = Sender -> [st |-> "live", port |-> 1,
                                       has_receive |-> FALSE, has_send |-> TRUE]
                    [] OTHER -> NoPort]
    /\ kern = [KernelInit EXCEPT
                  !.names[1] = [FreeEntry EXCEPT !.port = 1, !.recv = TRUE, !.srefs = 1],
                  !.ports[1].state = "alive"]
    /\ buf = MsgBufferNew
    /\ fault = "none"
    /\ last = Op("init", 0, "-", "-")
    /\ decs = [id \in PortValIds |-> << >>]
    /\ excused = FALSE
    /\ reserved = -1
    /\ conv = NoConv

NextReply ==
    \/ ~Calling /\ Reset
    \/ \E data \in Chunks :
          ~Calling /\ InlineLen(buf) + Len(data) <= MaxInline /\ ExtendInlineData(data)
    \/ \E timeout \in BOOLEAN : SendCall(Sender, timeout)
    \/ SendReturn
    \/ \E m \in ReplyMessages : (m.reply => FreeNames(kern) # {}) /\ ForeignSend(m)
    \/ \E timeout \in BOOLEAN : ~Calling /\ Recv(Receiver, timeout)

SpecReply == InitReply /\ [][NextReply]_vars

(***************************************************************************)
(* Claims about Port values and rights (Spec).                             *)
(***************************************************************************)
LivePorts == {id \in PortValIds : Live(id)}

ClaimsReceive(n) ==
    Cardinality({id \in LivePorts : ports[id].port = n /\ ports[id].has_receive})

\* C1: every right the task holds is claimed by at most one live Port
\* value, so that no right is released by two destructors.  Stated for the
\* receive right, of which a name has one: the receive right of a name the
\* task holds is claimed (has_receive) by at most one live Port value.
C1_ExclusiveOwnership ==
    \A n \in Names : kern.names[n].recv => ClaimsReceive(n) <= 1

\* The calls of decs[id], without their statuses.
IssuedCalls(id) ==
    [i \in 1..Len(decs[id]) |->
        [right |-> decs[id][i].right, name |-> decs[id][i].name,
         delta |-> decs[id][i].delta]]

\* The decrements a dropped Port value owes: one per right it holds.
OwedCalls(pv) ==
    (IF pv.has_receive
     THEN <<[right |-> "MACH_PORT_RIGHT_RECEIVE", name |-> pv.port, delta |-> -1]>>
     ELSE << >>)
    \o (IF pv.has_send
        THEN <<[right |-> "MACH_PORT_RIGHT_SEND", name |-> pv.port, delta |-> -1]>>
        ELSE << >>)

\* C2: once a Port value is dropped, the decrements issued on its behalf
\* are exactly one per right it holds, of that right kind, on its name, with
\* delta -1, whatever the kernel answered; a Port not dropped has issued none.
C2_DropReleasesEachRightOnce ==
    \A id \in PortValIds :
        IssuedCalls(id) = IF ports[id].st = "dropped" THEN OwedCalls(ports[id]) ELSE << >>

\* C2 witness: a Port value holding both rights was dropped and the kernel
\* refused one of its two decrements.
C2_Witness ==
    \E id \in PortValIds :
        /\ ports[id].st = "dropped"
        /\ ports[id].has_receive /\ ports[id].has_send
        /\ Len(decs[id]) = 2
        /\ \E i \in 1..2 : decs[id][i].status # "KERN_SUCCESS"

\* C3: move_right(mode, p) consumes p, appends to the descriptors of the
\* buffer one port descriptor with p's name and the move disposition of
\* mode, and no decrement is ever issued on behalf of a Port so consumed.
C3_MoveRightConsumes ==
    /\ [][\A id \in PortValIds :
            (last'.op = "move_right" /\ last'.pid = id) =>
               /\ ports[id].st = "live" /\ ports'[id].st = "moved"
               /\ descriptors(buf') =
                    Append(descriptors(buf),
                           [name |-> ports[id].port,
                            disposition |-> (CASE last'.res = "Receive" -> 16
                                               [] last'.res = "Send" -> 17
                                               [] last'.res = "SendOnce" -> 18),
                            type |-> 0])]_vars
    /\ [](\A id \in PortValIds : ports[id].st = "moved" => decs[id] = << >>)
    /\ [][\A id \in PortValIds : ports[id].st = "moved" => ports'[id].st = "moved"]_vars

\* C3 witness: a Port value was moved into the buffer, the message sent,
\* and every other Port value has since been dropped.
C3_Witness ==
    /\ \E id \in PortValIds : ports[id].st = "moved"
    /\ \E id \in PortValIds : ports[id].st = "dropped"
    /\ LivePorts = {}
    /\ descriptor_count(buf) = 0

\* C4: once every Port value is gone (dropped or sent away) and no buffer
\* was reset or discarded with a right in it, the task holds no right: every
\* entry of its name space is free.
C4_NoRightLeftBehind ==
    ( /\ LivePorts = {}
      /\ ~excused
      /\ HeldDescriptors(buf) = {} )
    => \A n \in Names : EntryFree(kern.names[n])

(***************************************************************************)
(* Claims about the MsgBuffer (SpecBuf).                                   *)
(***************************************************************************)
\* C5: after any operation the size field of the header equals the logical
\* length of the buffer, which is the width of MessageStart plus the bytes
\* of the descriptors plus the inline bytes.
C5_SizeIsLength ==
    Running =>
        /\ buf.msgh_size = BufLen(buf)
        /\ BufLen(buf) = SizeOfMessageStart + descriptors_byte_len(buf)
                         + Len(inline_data(buf))

\* C6: the complex flag of the header bits is set exactly when the
\* descriptor count is greater than zero.
C6_ComplexIffDescriptors == complex(buf) <=> descriptor_count(buf) > 0

\* C6 witness: a message with descriptors and inline data was built and
\* sent (flag and count cleared together), and one without was built after.
C6_Witness ==
    /\ last.op = "extend_inline_data"
    /\ ~complex(buf) /\ descriptor_count(buf) = 0
    /\ \E p \in KPortIds :
          /\ kern.ports[p].queue # << >>
          /\ Head(kern.ports[p].queue).complex
          /\ Head(kern.ports[p].queue).count = MaxDescBuf

\* C7: the allocated capacity is at least the logical length of the buffer
\* (MessageStart, descriptors, inline bytes) plus the width of the trailer.
C7_CapacityCoversTrailer ==
    Running => buf.capacity >= BufLen(buf) + SizeOfTrailer

\* C8: on a buffer whose inline data can be read, extend_inline_data(chunk)
\* appends chunk to inline_data() and leaves descriptors() alone, and
\* copy_right / move_right append one record (the Port's name, the
\* disposition of the mode) to descriptors() and leave inline_data() alone,
\* the record lying right after the records before it and right before the
\* first inline byte; a new buffer has neither.  So the two read back as the
\* chunks and the records in call order.
C8_AppendOrder ==
    /\ [][\A data \in Chunks :
            (ExtendInlineData(data) /\ InlineDataAssert(buf) /\ fault' = "none") =>
               /\ inline_data(buf') = inline_data(buf) \o data
               /\ descriptors(buf') = descriptors(buf)]_vars
    /\ [][\A id \in PortValIds, mode \in CopyModes \cup MoveModes :
            LET copied == mode \in CopyModes /\ CopyRight(mode, id)
                moved == mode \in MoveModes /\ MoveRight(mode, id)
                d == [name |-> ports[id].port,
                      disposition |->
                         (IF copied
                          THEN (CASE mode = "Send" -> 19
                                  [] mode = "MakeSend" -> 20
                                  [] mode = "MakeSendOnce" -> 21)
                          ELSE (CASE mode = "Receive" -> 16
                                  [] mode = "Send" -> 17
                                  [] mode = "SendOnce" -> 18)),
                      type |-> 0]
                at == descriptors_byte_len(buf)
            IN  (InlineDataAssert(buf) /\ (copied \/ moved)) =>
                   /\ descriptors(buf') = Append(descriptors(buf), d)
                   /\ inline_data(buf') = inline_data(buf)
                   /\ SubSeq(buf'.body, 1, at) = SubSeq(buf.body, 1, at)
                   /\ DescriptorAt(buf'.body, at) = d
                   /\ SubSeq(buf'.body, at + SizeOfPortDescriptor + 1, Len(buf'.body))
                        = inline_data(buf)]_vars
    /\ [](last.op \in {"init", "buffer_new"} =>
             inline_data(buf) = << >> /\ descriptors(buf) = << >>)

\* C8 witness: a descriptor was attached to a buffer that held a descriptor
\* and inline bytes, in front of those bytes, and more bytes came after.
C8_Witness ==
    /\ last.op = "extend_inline_data" /\ Running
    /\ ~BufReceived(buf) /\ InlineDataAssert(buf)
    /\ Len(descriptors(buf)) = 2
    /\ descriptors(buf)[1].disposition # descriptors(buf)[2].disposition
    /\ inline_data(buf) = <<7, 7, 7>>

\* C9: reset leaves the canonical empty buffer (size the width of
\* MessageStart, no descriptor, complex clear, the three port fields NULL,
\* no inline byte), with the allocated and the tracked capacities as they
\* were; a second reset changes nothing.
C9_ResetCanonical ==
    [][last'.op = "reset" =>
          /\ buf'.msgh_size = SizeOfMessageStart
          /\ BufLen(buf') = SizeOfMessageStart
          /\ descriptor_count(buf') = 0
          /\ ~complex(buf')
          /\ buf'.msgh_remote_port = MACH_PORT_NULL
          /\ buf'.msgh_local_port = MACH_PORT_NULL
          /\ buf'.msgh_voucher_port = MACH_PORT_NULL
          /\ inline_data(buf') = << >>
          /\ buf'.capacity = buf.capacity
          /\ buf'.capacity_inline = buf.capacity_inline
          /\ buf'.capacity_descriptors = buf.capacity_descriptors
          /\ BufReset(buf') = buf']_vars

\* C9 witness: a reset of a buffer that had grown and holds capacity for
\* descriptors and for inline bytes.
C9_Witness ==
    /\ last.op = "reset"
    /\ buf.capacity > SizeOfMessageStart + SizeOfTrailer
    /\ buf.capacity_inline > 0 /\ buf.capacity_descriptors > 0

\* C10: an extend_inline_data within what is left of the bytes reserved by
\* the last reserve_inline_data (no other operation since) leaves the
\* allocated capacity as it was.
C10_ReservedExtendKeepsCapacity ==
    [][\A data \in Chunks :
          (ExtendInlineData(data) /\ reserved >= Len(data)) =>
              buf'.capacity = buf.capacity]_vars

\* C10 witness: the bytes reserved were used up by more than one extend.
C10_Witness ==
    /\ last.op = "extend_inline_data" /\ Running
    /\ reserved = 0
    /\ \E i \in 1..Len(inline_data(buf)) : inline_data(buf)[i] = 7
    /\ descriptor_count(buf) > 0

(***************************************************************************)
(* Claims about taking, sending and receiving (Spec, SpecBuf).             *)
(***************************************************************************)
\* C11: take_port on a port record whose name is neither NULL nor DEAD
\* writes NULL over the name and returns a new Port for that name, and a
\* later take_port or take_raw_port on the record returns nothing; on a
\* record whose name is NULL or DEAD it returns nothing and leaves the
\* record as it is.
C11_TakePortOnce ==
    [][\A i \in 1..MaxDesc :
          TakePort(i) =>
             LET off == WalkDescriptors(buf.body, 0, i - 1)
                 name == U32At(buf.body, off)
             IN  IF name # MACH_PORT_NULL /\ name # MACH_PORT_DEAD
                 THEN /\ U32At(buf'.body, off) = MACH_PORT_NULL
                      /\ last'.res = "Some"
                      /\ ports[last'.pid].st = "none"
                      /\ ports'[last'.pid].st = "live"
                      /\ ports'[last'.pid].port = name
                      /\ take_raw_port(buf'.body, off) =
                            [name |-> MACH_PORT_NULL, body |-> buf'.body]
                 ELSE /\ last'.res = "None"
                      /\ buf' = buf
                      /\ ports' = ports]_vars

\* C11, amended: as C11, except that take_port returns the failure of the
\* kernel's type query, and no Port, when the name denotes no entry of the
\* task; the name is replaced by NULL in that case too, and at most one Port
\* value comes of a record.
C11_TakePortOnceOrFails ==
    [][\A i \in 1..MaxDesc :
          TakePort(i) =>
             LET off == WalkDescriptors(buf.body, 0, i - 1)
                 name == U32At(buf.body, off)
                 ty == PortType(kern, name)
             IN  IF name # MACH_PORT_NULL /\ name # MACH_PORT_DEAD
                 THEN /\ U32At(buf'.body, off) = MACH_PORT_NULL
                      /\ take_raw_port(buf'.body, off) =
                            [name |-> MACH_PORT_NULL, body |-> buf'.body]
                      /\ IF ty.status = "KERN_SUCCESS"
                         THEN /\ last'.res = "Some"
                              /\ ports[last'.pid].st = "none"
                              /\ ports'[last'.pid].st = "live"
                              /\ ports'[last'.pid].port = name
                              /\ \A id \in PortValIds \ {last'.pid} : ports'[id] = ports[id]
                         ELSE /\ last'.res = ty.status
                              /\ ports' = ports
                 ELSE /\ last'.res = "None"
                      /\ buf' = buf
                      /\ ports' = ports]_vars

\* C11 witness: a second take_port on a record already taken returned
\* nothing, the Port of the first take being alive.
C11_Witness ==
    /\ last.op = "take_port" /\ last.res = "None"
    /\ BufReceived(buf) /\ descriptor_count(buf) = 1
    /\ descriptors(buf)[1].name = MACH_PORT_NULL
    /\ \E id \in PortValIds : Live(id) /\ ports[id].has_send /\ ports[id].has_receive

\* C12: a send that succeeds leaves the canonical empty buffer (default
\* header, no descriptor, no inline byte); a send that fails leaves the
\* descriptor count, the descriptors, the inline data, the size and the
\* complex flag as they were, with the remote port field cleared.
C12_SendResetsOrKeeps ==
    [][\A id \in PortValIds, timeout \in BOOLEAN :
          (Send(id, timeout) /\ fault' = "none") =>
             IF last'.res = "MACH_MSG_SUCCESS"
             THEN /\ buf'.msgh_bits = MsghBits(MACH_MSG_TYPE_COPY_SEND, 0, FALSE)
                  /\ buf'.msgh_size = SizeOfMessageStart
                  /\ BufLen(buf') = SizeOfMessageStart
                  /\ buf'.msgh_remote_port = MACH_PORT_NULL
                  /\ buf'.msgh_local_port = MACH_PORT_NULL
                  /\ buf'.msgh_voucher_port = MACH_PORT_NULL
                  /\ buf'.msgh_id = 0
                  /\ descriptor_count(buf') = 0
                  /\ descriptors(buf') = << >>
                  /\ inline_data(buf') = << >>
             ELSE /\ descriptor_count(buf') = descriptor_count(buf)
                  /\ descriptors(buf') = descriptors(buf)
                  /\ inline_data(buf') = inline_data(buf)
                  /\ buf'.msgh_size = buf.msgh_size
                  /\ BufLen(buf') = BufLen(buf)
                  /\ complex(buf') = complex(buf)
                  /\ buf'.msgh_remote_port = MACH_PORT_NULL]_vars

\* C12 witness: a send of a message with a descriptor and inline bytes
\* failed in the kernel, and the buffer still holds both.
C12_Witness ==
    /\ last.op = "send" /\ last.res = "MACH_SEND_INVALID_RIGHT"
    /\ ~BufReceived(buf)
    /\ descriptor_count(buf) > 0
    /\ inline_data(buf) = <<1, 2, 3, 4>>

\* The queue of the port Receiver receives on.
ReceiverQueue == kern.ports[kern.names[ports[Receiver].port].port].queue

\* C13: a send through Sender puts the message, with the inline bytes and
\* the descriptor count of the buffer, behind the messages already queued;
\* a recv on Receiver that succeeds takes the message at the front, and the
\* buffer then has its inline bytes as inline_data(), its descriptor count,
\* and a logical length equal to the size in the header.  So messages are
\* received in the order sent, each as sent.
C13_FifoRoundTrip ==
    /\ [][\A timeout \in BOOLEAN :
            (Send(Sender, timeout) /\ last'.res = "MACH_MSG_SUCCESS") =>
               /\ Len(ReceiverQueue') = Len(ReceiverQueue) + 1
               /\ SubSeq(ReceiverQueue', 1, Len(ReceiverQueue)) = ReceiverQueue
               /\ ReceiverQueue'[Len(ReceiverQueue')].data = inline_data(buf)
               /\ ReceiverQueue'[Len(ReceiverQueue')].count = descriptor_count(buf)]_vars
    /\ [][\A timeout \in BOOLEAN :
            (Recv(Receiver, timeout) /\ last'.res = "MACH_MSG_SUCCESS") =>
               /\ ReceiverQueue' = Tail(ReceiverQueue)
               /\ inline_data(buf') = Head(ReceiverQueue).data
               /\ descriptor_count(buf') = Head(ReceiverQueue).count
               /\ Len(descriptors(buf')) = Head(ReceiverQueue).count
               /\ BufLen(buf') = buf'.msgh_size]_vars

\* C13 witness: of two messages queued, the first sent was received, with
\* its bytes, and the second is still queued.
C13_Witness ==
    /\ last.op = "recv" /\ last.res = "MACH_MSG_SUCCESS"
    /\ inline_data(buf) = <<1, 2, 3, 4>> /\ descriptor_count(buf) = 0
    /\ Len(ReceiverQueue) = 1
    /\ ReceiverQueue[1].data = <<7, 7, 7, 7>>

\* The Port value take_port makes in SpecMove, and the decrements of the
\* receive right issued on behalf of Port value id.
Taken == Other + 1

ReceiveDecrements(id) ==
    Cardinality({i \in 1..Len(decs[id]) : decs[id][i].right = "MACH_PORT_RIGHT_RECEIVE"})

\* C14: when the receive right of Other is moved into a message that is
\* sent and received, take_port on the received record makes a Port value
\* with has_receive; no decrement is ever issued on behalf of Other; and the
\* decrements of that receive right number at most one, exactly one once the
\* taken Port value is dropped.
C14_MovedReceiveReleasedOnce ==
    /\ [][\A i \in 1..MaxDesc :
            ( /\ TakePort(i)
              /\ descriptors(buf)[i].disposition = MACH_MSG_TYPE_MOVE_RECEIVE
              /\ descriptors(buf)[i].name \notin {MACH_PORT_NULL, MACH_PORT_DEAD} ) =>
               /\ last'.res = "Some"
               /\ ports'[last'.pid].st = "live"
               /\ ports'[last'.pid].has_receive
               /\ ports'[last'.pid].port = descriptors(buf)[i].name]_vars
    /\ [](ports[Other].st = "moved" =>
             /\ decs[Other] = << >>
             /\ ReceiveDecrements(Taken) <= 1
             /\ ports[Taken].st = "dropped" => ReceiveDecrements(Taken) = 1)

\* C14 witness: the right went through a message, was taken and the taken
\* Port value dropped, the kernel releasing the receive right.
C14_Witness ==
    /\ ports[Other].st = "moved"
    /\ ports[Taken].st = "dropped" /\ ports[Taken].has_receive
    /\ Len(decs[Taken]) = 1 /\ decs[Taken][1].status = "KERN_SUCCESS"
    /\ \A p \in KPortIds : p # 1 => kern.ports[p].state # "alive"

(***************************************************************************)
(* convert_timeout.  A u64 is four 16-bit limbs, least significant first,  *)
(* so that the checked arithmetic is done at its full width.               *)
(***************************************************************************)
LimbBase == 65536
I32Max == 2147483647
MillisPerSec == 1000

\* u64::checked_mul by a factor below 2^15: none when the product needs a
\* fifth limb.
checked_mul(x, k) ==
    LET t1 == x[1] * k
        t2 == x[2] * k + t1 \div LimbBase
        t3 == x[3] * k + t2 \div LimbBase
        t4 == x[4] * k + t3 \div LimbBase
    IN  [some |-> t4 \div LimbBase = 0,
         value |-> <<t1 % LimbBase, t2 % LimbBase, t3 % LimbBase, t4 % LimbBase>>]

\* u64::checked_add of a value below 2^16.
checked_add(x, a) ==
    LET t1 == x[1] + a
        t2 == x[2] + t1 \div LimbBase
        t3 == x[3] + t2 \div LimbBase
        t4 == x[4] + t3 \div LimbBase
    IN  [some |-> t4 \div LimbBase = 0,
         value |-> <<t1 % LimbBase, t2 % LimbBase, t3 % LimbBase, t4 % LimbBase>>]

\* x <= std::i32::MAX as u64
LeqI32Max(x) == x[4] = 0 /\ x[3] = 0 /\ x[2] < LimbBase \div 2

\* x as i32: the low 32 bits, read as two's complement.
AsI32(x) ==
    IF x[2] >= LimbBase \div 2 THEN (x[2] - LimbBase) * LimbBase + x[1]
    ELSE x[2] * LimbBase + x[1]

\* A convert_timeout without the filter.
convert_timeout_unfiltered(duration) ==
    LET mul == checked_mul(duration.secs, MillisPerSec)
        add == IF mul.some THEN checked_add(mul.value, duration.subsec_millis) ELSE mul
    IN  IF add.some THEN AsI32(add.value) ELSE I32Max

convert_timeout(duration) ==
    LET mul == checked_mul(duration.secs, MillisPerSec)
        add == IF mul.some THEN checked_add(mul.value, duration.subsec_millis) ELSE mul
        filtered == [some |-> add.some /\ LeqI32Max(add.value), value |-> add.value]
    IN  IF filtered.some THEN AsI32(filtered.value) ELSE I32Max

\* The seconds given: around each place where the result changes shape.
SecsInputs ==
    { <<0, 0, 0, 0>>,                      \* 0
      <<1, 0, 0, 0>>,                      \* 1
      <<2, 0, 0, 0>>,                      \* 2
      <<1000, 0, 0, 0>>,                   \* 1000
      <<65535, 0, 0, 0>>,                  \* 2^16 - 1
      <<0, 1, 0, 0>>,                      \* 2^16
      <<50330, 32, 0, 0>>,                 \* 2147482
      <<50331, 32, 0, 0>>,                 \* 2147483 = i32::MAX / 1000
      <<50332, 32, 0, 0>>,                 \* 2147484
      <<35127, 65, 0, 0>>,                 \* 4294967: the product passes 2^32
      <<65535, 32767, 0, 0>>,              \* i32::MAX
      <<65535, 65535, 0, 0>>,              \* 2^32 - 1
      <<0, 0, 1, 0>>,                      \* 2^32
      <<42991, 19398, 35127, 65>>,         \* 18446744073709551 = u64::MAX / 1000
      <<42992, 19398, 35127, 65>>,         \* 18446744073709552
      <<0, 0, 0, 32768>>,                  \* 2^63
      <<65535, 65535, 65535, 65535>> }     \* u64::MAX

\* subsec_millis is below 1000.
MillisInputs == {0, 1, 615, 616, 647, 648, 999}

InitConv ==
    /\ ports = [id \in PortValIds |-> NoPort]
    /\ kern = KernelInit
    /\ buf = MsgBufferNew
    /\ fault = "none"
    /\ last = Op("init", 0, "-", "-")
    /\ decs = [id \in PortValIds |-> << >>]
    /\ excused = FALSE
    /\ reserved = -1
    /\ \E s \in SecsInputs, m \in MillisInputs :
          conv = [secs |-> s, subsec_millis |-> m, result |-> -1]

ConvertTimeout ==
    /\ conv.result = -1
    /\ conv' = [conv EXCEPT !.result = convert_timeout(conv)]
    /\ UNCHANGED <<ports, kern, buf, fault, last, decs, excused, reserved>>

NextConv == ConvertTimeout

SpecConv == InitConv /\ [][NextConv]_vars

\* C15: a send with a timeout on a port whose queue is full and is never
\* drained eventually returns, failing with the kind TimedOut.
SendWaitsOnFull ==
    /\ last = Op("send", Sender, "CALLING", "Some")
    /\ Len(ReceiverQueue) = QLimit
    /\ buf.msgh_size = BufLen(buf) /\ buf.msgh_size % 4 = 0

C15_SendTimesOut ==
    SendWaitsOnFull ~> (last.op = "send" /\ mach_call(last.res) = "TimedOut")

\* C16: a recv with a timeout on a port whose queue is empty and stays empty
\* eventually returns, with an error of kind TimedOut (neither success nor
\* another failure), and leaves the length and the content of the buffer as
\* they were.
RecvWaitsOnEmpty ==
    /\ last = Op("recv", Receiver, "CALLING", "Some")
    /\ ReceiverQueue = << >>

C16_RecvTimesOut ==
    /\ RecvWaitsOnEmpty ~> (last.op = "recv" /\ mach_call(last.res) = "TimedOut")
    /\ [][RecvReturn /\ RecvWaitsOnEmpty =>
            /\ mach_call(last'.res) = "TimedOut"
            /\ buf' = buf]_vars

C16_Witness ==
    /\ last.op = "recv" /\ last.res = "MACH_RCV_TIMED_OUT"
    /\ ~BufReceived(buf)
    /\ inline_data(buf) = <<1, 2, 3, 4>>

\* C17: for every duration of s seconds and m milliseconds the timeout
\* argument is min(s * 1000 + m, i32::MAX): never negative, and i32::MAX
\* when the product or the sum does not fit in 64 bits.
SecsFits(x) == x[4] = 0 /\ x[3] = 0 /\ x[2] <= I32Max \div LimbBase

\* min(s * 1000 + m, i32::MAX), without forming a number above i32::MAX.
MinMillis(duration) ==
    LET x == duration.secs
        m == duration.subsec_millis
        sv == x[2] * LimbBase + x[1]
    IN  IF /\ SecsFits(x)
           /\ sv <= I32Max \div MillisPerSec
           /\ m <= I32Max - sv * MillisPerSec
        THEN sv * MillisPerSec + m
        ELSE I32Max

C17_ConvertTimeoutSaturates ==
    conv.result # -1 =>
        /\ conv.result = MinMillis(conv)
        /\ conv.result >= 0
        /\ conv.result <= I32Max
        /\ (~checked_mul(conv.secs, MillisPerSec).some => conv.result = I32Max)

C17_Witness ==
    /\ conv.secs = <<65535, 65535, 65535, 65535>>
    /\ conv.subsec_millis = 999
    /\ conv.result = I32Max

\* C18: a Port claims at its construction only rights the task holds under
\* its name: new gives has_receive and not has_send, from_raw_port gives
\* each flag the bit mach_port_type reports for the name, make_sender gives
\* has_send and not has_receive; a constructor whose kernel call fails makes
\* no Port and returns the failure.
Constructing ==
    \/ PortNew
    \/ \E id \in PortValIds : MakeSender(id)
    \/ \E i \in 1..MaxDesc :
          TakePort(i) /\ descriptors(buf)[i].name \notin {MACH_PORT_NULL, MACH_PORT_DEAD}

C18_PortClaimsHeldRights ==
    [][/\ \A id \in PortValIds :
            (ports[id].st = "none" /\ ports'[id].st # "none") =>
               LET pv == ports'[id]
                   held == PortType(kern', pv.port)
                   ty == PortType(kern, pv.port)
               IN  /\ pv.st = "live" /\ held.status = "KERN_SUCCESS"
                   /\ pv.has_receive => held.receive
                   /\ pv.has_send => held.send
                   /\ last'.op \in {"new", "make_sender", "take_port"}
                   /\ last'.pid = id
                   /\ (last'.op = "new") => (pv.has_receive /\ ~pv.has_send)
                   /\ (last'.op = "make_sender") => (pv.has_send /\ ~pv.has_receive)
                   /\ (last'.op = "take_port") =>
                         (pv.has_receive = ty.receive /\ pv.has_send = ty.send)
       /\ (Constructing /\ last'.res \notin {"KERN_SUCCESS", "Some"}) =>
             /\ ports' = ports
             /\ last'.pid = 0
             /\ last'.res \in {"KERN_NO_SPACE", "KERN_INVALID_NAME", "KERN_INVALID_RIGHT",
                                "UnexpectedRightType"}]_vars

C18_Witness ==
    /\ last.op = "take_port" /\ last.res = "Some"
    /\ ports[last.pid].has_send /\ ports[last.pid].has_receive
    /\ \E id \in PortValIds : Live(id) /\ ports[id].has_receive /\ ~ports[id].has_send
    /\ \E id \in PortValIds : Live(id) /\ ports[id].has_send /\ ~ports[id].has_receive

\* C19: make_sender returns the error UnexpectedRightType whenever
\* mach_port_extract_right succeeds and reports a right type other than a
\* send right, and returns the kernel's failure when the call fails; in both
\* cases no Port is made and the flags of the Port it was called on stay.
C19_MakeSenderRejects ==
    [][\A id \in PortValIds, right \in ReportedRights :
          MakeSenderReported(id, right) =>
             LET r == ExtractMakeSend(kern, ports[id].port)
             IN  /\ (r.status = "KERN_SUCCESS" /\ right # MACH_MSG_TYPE_PORT_SEND) =>
                       /\ last'.res = "UnexpectedRightType"
                       /\ ports' = ports
                 /\ r.status # "KERN_SUCCESS" =>
                       /\ last'.res = r.status
                       /\ ports' = ports
                 /\ ports'[id] = ports[id]]_vars

C19_Witness ==
    /\ last.op = "make_sender" /\ last.res = "UnexpectedRightType"
    /\ \E id \in PortValIds : Live(id) /\ ports[id].has_receive /\ ~ports[id].has_send
    /\ \A id \in PortValIds : Live(id) => ~ports[id].has_send

\* C20: an operation that walks the descriptor chain (the iteration of
\* descriptors(), inline_data(), extend_inline_data, the append of a
\* descriptor) and meets a record whose type tag is none of the four known
\* ones ends in the fatal state at that record: the records before it are
\* all that is yielded, and the buffer is not changed.
KnownTags ==
    {MACH_MSG_PORT_DESCRIPTOR, MACH_MSG_OOL_DESCRIPTOR,
     MACH_MSG_OOL_PORTS_DESCRIPTOR, MACH_MSG_OOL_VOLATILE_DESCRIPTOR}

\* The tag of record k of the buffer, the records before it being port
\* records.
TagOfRecord(b, k) == b.body[SizeOfPortDescriptor * k]

\* The place of the first record of unknown type, 0 when the walk meets none.
FirstUnknown(b) ==
    LET bad == {k \in 1..b.msgh_descriptor_count :
                  /\ SizeOfPortDescriptor * k <= Len(b.body)
                  /\ \A j \in 1..(k - 1) : TagOfRecord(b, j) = MACH_MSG_PORT_DESCRIPTOR
                  /\ TagOfRecord(b, k) \notin KnownTags}
    IN  IF bad = {} THEN 0 ELSE CHOOSE k \in bad : TRUE

Walking ==
    \/ IterDescriptors
    \/ InlineData
    \/ \E n \in ReserveInlineSizes : ReserveInlineData(n)
    \/ \E data \in WalkChunks : ExtendInlineData(data)
    \/ CopyRight("MakeSend", Other)

C20_UnknownTagIsFatal ==
    [][(Walking /\ FirstUnknown(buf) > 0) =>
          /\ fault' = "panic"
          /\ buf' = buf
          /\ Len(descriptors(buf)) = FirstUnknown(buf) - 1]_vars

C20_Witness ==
    /\ fault = "panic"
    /\ last.op = "descriptors"
    /\ FirstUnknown(buf) = 2
    /\ Len(descriptors(buf)) = 1

\* C21: whenever no send call is in progress the remote-port field of the
\* header is NULL: send writes the raw name of the Port into it before the
\* kernel call and clears it after the call on every outcome.
SendInProgress == Calling /\ last.op = "send"

C21_RemoteNullOutsideSend ==
    ~SendInProgress => buf.msgh_remote_port = MACH_PORT_NULL

\* C21 as amended: the field holds the name of the Port during the call, is
\* NULL when the call has returned, whatever the outcome, and outside a send
\* is other than NULL only in a buffer a receive has written, where it is
\* the name the kernel gave the reply right of the message.
C21_RemoteClearedBySend ==
    /\ [](SendInProgress => buf.msgh_remote_port = ports[last.pid].port)
    /\ [][SendReturn => buf'.msgh_remote_port = MACH_PORT_NULL]_vars
    /\ []((~SendInProgress /\ buf.msgh_remote_port # MACH_PORT_NULL) =>
            /\ BufReceived(buf)
            /\ buf.msgh_bits.remote = MACH_MSG_TYPE_MOVE_SEND_ONCE
            /\ kern.names[buf.msgh_remote_port] = ReplyEntry)

C21_Witness ==
    /\ last.op = "send" /\ last.res = "MACH_SEND_MSG_TOO_SMALL"
    /\ buf.msgh_remote_port = MACH_PORT_NULL
    /\ inline_data(buf) = <<7>>

\* C22: on the drop of a Port, a release of the send right that the kernel
\* refuses with KERN_INVALID_RIGHT is taken for a success (nothing is
\* reported), any other refused release of either right is reported and
\* nothing more (the program does not panic, the drop completes), and the
\* release of the send right is attempted whatever the release of the
\* receive right returned.
NewCalls(id) == SubSeq(decs'[id], Len(decs[id]) + 1, Len(decs'[id]))

C22_DropFailuresNotFatal ==
    [][\A id \in PortValIds :
          PortDrop(id) =>
             /\ fault' = "none"
             /\ ports'[id].st = "dropped"
             /\ Len(NewCalls(id)) = (IF ports[id].has_receive THEN 1 ELSE 0)
                                     + (IF ports[id].has_send THEN 1 ELSE 0)
             /\ ports[id].has_send =>
                   NewCalls(id)[Len(NewCalls(id))].right = "MACH_PORT_RIGHT_SEND"
             /\ \A i \in 1..Len(NewCalls(id)) :
                   LET c == NewCalls(id)[i]
                   IN  c.reported <=>
                          /\ c.status # "KERN_SUCCESS"
                          /\ ~(c.right = "MACH_PORT_RIGHT_SEND"
                                /\ c.status = "KERN_INVALID_RIGHT")]_vars

\* C22 witness: a Port holding both rights was dropped, the kernel refused
\* the release of its receive right, which was reported, and the release of
\* its send right was made all the same and refused with KERN_INVALID_RIGHT,
\* which was not reported.
C22_Witness ==
    /\ last.op = "drop" /\ fault = "none"
    /\ Len(decs[last.pid]) = 2
    /\ decs[last.pid][1].status # "KERN_SUCCESS" /\ decs[last.pid][1].reported
    /\ decs[last.pid][2].status = "KERN_INVALID_RIGHT" /\ ~decs[last.pid][2].reported

\* C23: each send and each recv makes one mach_msg call: a send queues its
\* message once or not at all, a recv takes the first message off the queue
\* or none; told that the message is too large, recv returns that failure
\* with the message still queued and the buffer neither grown nor rewritten
\* beyond the size the kernel reported.
HeadTooLarge ==
    /\ ReceiverQueue # << >>
    /\ MsgSize(Head(ReceiverQueue)) + SizeOfTrailer > buf.capacity

C23_OneKernelCall ==
    [][/\ \A timeout \in BOOLEAN :
            Recv(Receiver, timeout) =>
               IF ReceiverQueue = << >>
               THEN kern' = kern /\ buf' = buf /\ last'.res = "MACH_RCV_TIMED_OUT"
               ELSE IF HeadTooLarge
               THEN /\ last'.res = "MACH_RCV_TOO_LARGE"
                    /\ kern' = kern
                    /\ buf' = [buf EXCEPT !.msgh_size =
                                  MsgSize(Head(ReceiverQueue)) + SizeOfTrailer]
               ELSE /\ last'.res = "MACH_MSG_SUCCESS"
                    /\ ReceiverQueue' = Tail(ReceiverQueue)
       /\ \A timeout \in BOOLEAN :
            (Send(Sender, timeout) /\ fault' = "none") =>
               IF last'.res = "MACH_MSG_SUCCESS"
               THEN /\ Len(ReceiverQueue') = Len(ReceiverQueue) + 1
                    /\ SubSeq(ReceiverQueue', 1, Len(ReceiverQueue)) = ReceiverQueue
               ELSE ReceiverQueue' = ReceiverQueue]_vars

C23_Witness ==
    /\ last.op = "recv" /\ last.res = "MACH_RCV_TOO_LARGE"
    /\ Len(ReceiverQueue) = 2
    /\ buf.msgh_size = MsgSize(Head(ReceiverQueue)) + SizeOfTrailer
    /\ buf.msgh_size > buf.capacity

\* C24: the tracked inline capacity, the tracked descriptor capacity and the
\* allocated capacity of a buffer never decrease, whatever the operation
\* (reserve_inline_data, reserve_descriptors, extend_inline_data,
\* copy_right, move_right, reset, send, recv), and a reserve whose request
\* is within the capacity already tracked changes nothing.
C24_CapacitiesNeverDecrease ==
    [][/\ ~BufferNew =>
            /\ buf'.capacity_inline >= buf.capacity_inline
            /\ buf'.capacity_descriptors >= buf.capacity_descriptors
            /\ buf'.capacity >= buf.capacity
       /\ \A n \in ReserveInlineSizes :
            (ReserveInlineData(n) /\ buf.capacity_inline >= InlineLen(buf) + n) =>
               buf' = buf
       /\ \A n \in ReserveDescriptorCounts :
            (ReserveDescriptors(n) /\ buf.capacity_descriptors >= descriptor_count(buf) + n) =>
               buf' = buf]_vars

\* C24 witness: reserve_descriptors was called on a buffer reset after it
\* had held three descriptors, and the tracked capacity is still three.
C24_Witness ==
    /\ last.op = "reserve_descriptors"
    /\ descriptor_count(buf) = 0
    /\ buf.capacity_descriptors = MaxDescBuf
    /\ buf.capacity_inline = MaxInline

\* C25: in every buffer state, a buffer that has just received a message
\* included, extend_inline_data(data) writes within the allocation: at the
\* copy the allocated capacity less the length is at least the length of
\* data (the assertion of extend_inline_data holds).
C25_ExtendWithinCapacity ==
    [][\A data \in Chunks :
          (ExtendInlineData(data) /\ WalkFaults(buf) = {} /\ InlineDataAssert(buf)) =>
             ExtendAssert(ExtendReserve(buf, Len(data)), Len(data))]_vars

====
